---- MODULE Spec2Model ----
(***************************************************************************)
(* tinuous: the incremental-fetch state machine and the watermark          *)
(* ("since") computation of CISystem, with the fetch command around it.    *)
(*                                                                         *)
(* Timestamps are integers; a registration is the tuple <<ts, processed>>  *)
(* that register_build pushes on the heap `fetched`.                       *)
(***************************************************************************)
EXTENDS Integers, Sequences, FiniteSets, TLC

\* Python's None, for a name
None == "None"

\* Python's None, where a timestamp is expected (timestamps are >= 0)
NoTime == -1

(***************************************************************************)
(* Bounds of the model.                                                    *)
(***************************************************************************)
\* registrations made on one tracker in SpecTracker
MaxRegs == 3

\* timestamps offered to the tracker on its own
TrackerTimes == {0, 5, 10, 20, 30}

\* events one CISystem reads from its feeds during one fetch
MaxEvents == 3

\* timestamps of the events in the feeds
FeedTimes == {30, 35, 40, 50}

\* workflow runs that come to exist in the stored world of SpecRuns
MaxWorld == 3

(***************************************************************************)
(* heapq on a Python list of (datetime, bool) tuples.  Positions are       *)
(* 1-based here: the parent of p is p \div 2, its children 2p and 2p+1.    *)
(***************************************************************************)

\* mutant of ItemLT: on a tie the processed entry sorts first
ItemLT_true_first(a, b) ==
    \/ a[1] < b[1]
    \/ a[1] = b[1] /\ a[2] = TRUE /\ b[2] = FALSE

\* mutant of ItemLT: only the timestamps are compared
ItemLT_ts_only(a, b) == a[1] < b[1]

\* Python's tuple comparison (ts, processed) < (ts2, processed2): the
\* timestamp decides, and on a tie False sorts before True.
ItemLT(a, b) ==
    \/ a[1] < b[1]
    \/ a[1] = b[1] /\ a[2] = FALSE /\ b[2] = TRUE

RECURSIVE siftdown(_, _, _, _)
\* heapq._siftdown(heap, startpos, pos) with newitem = heap[pos]
siftdown(heap, startpos, pos, newitem) ==
    IF pos > startpos /\ ItemLT(newitem, heap[pos \div 2])
    THEN siftdown([heap EXCEPT ![pos] = heap[pos \div 2]], startpos, pos \div 2, newitem)
    ELSE [heap EXCEPT ![pos] = newitem]

RECURSIVE siftup_loop(_, _, _)
\* the while loop of heapq._siftup: bubble the smaller child up until a leaf
siftup_loop(heap, pos, newitem) ==
    LET endpos == Len(heap)
        childpos == 2 * pos
        rightpos == childpos + 1
        c == IF rightpos <= endpos /\ ~ItemLT(heap[childpos], heap[rightpos])
             THEN rightpos ELSE childpos
    IN  IF childpos <= endpos
        THEN siftup_loop([heap EXCEPT ![pos] = heap[c]], c, newitem)
        ELSE siftdown(heap, 1, pos, newitem)

\* heapq.heappush(heap, item)
heappush(heap, item) ==
    siftdown(Append(heap, item), 1, Len(heap) + 1, item)

\* heapq.heappop(heap): the smallest item and the heap that is left
heappop(heap) ==
    LET lastelt == heap[Len(heap)]
        rest == SubSeq(heap, 1, Len(heap) - 1)
    IN  IF rest # <<>>
        THEN [item |-> rest[1], heap |-> siftup_loop(rest, 1, lastelt)]
        ELSE [item |-> lastelt, heap |-> rest]

(***************************************************************************)
(* CISystem.register_build and CISystem.new_since                          *)
(***************************************************************************)
\* mutant of register_build: list.append instead of heapq.heappush
register_build_append(heap, ts, processed) == Append(heap, <<ts, processed>>)

register_build(heap, ts, processed) == heappush(heap, <<ts, processed>>)

RECURSIVE new_since_loop(_, _)
new_since_loop(prev_ts, heap) ==
    IF heap = <<>>
    THEN [ts |-> prev_ts, fetched |-> heap]
    ELSE LET p == heappop(heap)
         IN  IF ~p.item[2]
             THEN [ts |-> prev_ts, fetched |-> p.heap]
             ELSE new_since_loop(p.item[1], p.heap)

RECURSIVE new_since_skip_loop(_, _)
new_since_skip_loop(prev_ts, heap) ==
    IF heap = <<>>
    THEN [ts |-> prev_ts, fetched |-> heap]
    ELSE LET p == heappop(heap)
         IN  new_since_skip_loop(IF p.item[2] THEN p.item[1] ELSE prev_ts, p.heap)

\* mutant of new_since: `continue` where the code has `break`
new_since_continue(since_, heap) == new_since_skip_loop(since_, heap)

RECURSIVE new_since_peek_loop(_, _)
new_since_peek_loop(prev_ts, heap) ==
    IF heap = <<>>
    THEN [ts |-> prev_ts, fetched |-> heap]
    ELSE LET p == heappop(heap)
         IN  IF ~p.item[2]
             THEN [ts |-> prev_ts, fetched |-> heap]
             ELSE new_since_peek_loop(p.item[1], p.heap)

\* mutant of new_since: the unprocessed entry it stops at is left on the heap
new_since_peek(since_, heap) == new_since_peek_loop(since_, heap)

\* new_since(): the floor it returns and the list `fetched` it leaves behind
new_since(since_, heap) == new_since_loop(since_, heap)

(***************************************************************************)
(* State                                                                   *)
(***************************************************************************)
VARIABLES
    pc,           \* where the program is
    since,        \* CISystem.since
    fetched,      \* CISystem.fetched, a heapq list
    regs,         \* history: the register_build calls on this tracker, in call order
    floor,        \* the value the last new_since() returned, None before it
    cfg,          \* Config: ci (the configured providers), types, since, until, paths
    stateFile,    \* the state file on disk: provider -> timestamp, None if absent
    file0,        \* history: the state file when fetch started
    since_stamps, \* fetch's dict of floors, loaded from the state file
    cur,          \* index in cfg.ci of the provider being fetched
    feeds,        \* the feeds the current CISystem has still to read, current first
    feedno,       \* ordinal of the current feed of this CISystem
    last,         \* timestamp of the last event read from the current feed
    trace,        \* history: what was done with each event read by this CISystem
    world,        \* SpecRuns: the workflow runs that exist at GitHub, oldest first
    listed,       \* SpecRuns: the current feed has been requested
    snap,         \* SpecRuns: the items of the current feed still to be read
    yielded,      \* SpecRuns history: ids of the runs whose assets were yielded
    asset,        \* SpecDownload: the asset whose download() is called
    disk,         \* SpecDownload: the asset's target on disk and the temporary zip file
    call,         \* SpecDownload: the download() call in progress
    ret,          \* SpecDownload history: how the last download() call ended
    commit,       \* SpecGitHub: the commit get_build_assets_for_commit is called for
    common_status, \* SpecDownload: path_fields()["common_status"] of the asset
    statefile,    \* SpecState: the StateFile object
    cwd,          \* SpecState: the state files in the working directory
    got           \* SpecState history: the last call, its arguments, what it
                  \* gave, the object and the files before it, and whether
                  \* the object has left migrating mode
VARIABLES
    hash2pr,      \* GitHubActions.hash2pr: head_sha -> pull request number
    lookups,      \* head_sha -> auxiliary lookups made for it so far
    event_ids,    \* head_sha -> the ids get_event_id gave for its pull-request
                  \* runs that carry no pull_requests entry
    calls,        \* head_sha -> the number of those get_event_id calls
    event_id      \* what the last get_event_id call returned
VARIABLES
    packages,     \* the 'packages' entry of the github section of the
                  \* configuration data: whether present, and the names listed
    versions,     \* the package versions GitHub lists, in listing order
    vnext,        \* get_package_assets: the next version of the listing
    pkg_assets    \* the package versions get_package_assets yielded
VARIABLES
    wfspec,       \* the data a WorkflowSpec is made from: regex, include,
                  \* exclude, and whether include is given at all
    matched       \* the last match call: its kind, argument and result
VARIABLES
    not_started   \* history: the Travis builds a traversal met with
                  \* started_at null
VARIABLES
    refloor,      \* SpecTracker: what a second new_since() call returned
    gs,           \* SpecConfig: the Config, the clock, the argument and the
                  \* result of Config.get_since
    req           \* SpecGet: the APIClient.get call: its retry counter i, the
                  \* response in hand, how it ended, and as history the
                  \* number of requests sent and whether every response
                  \* so far was a 5xx or a 429 without usable Retry-After
VARIABLES
    cci           \* SpecJobs: the jobs loop of CircleCI.get_build_assets for
                  \* one pipeline: the options, the pipeline, its jobs, the
                  \* next job, whether the local `action` is bound, what was
                  \* yielded and how the traversal ended

trackerVars == <<pc, since, fetched, regs, floor>>

worldVars == <<world, listed, snap, yielded>>

stVars == <<statefile, cwd, got>>

ghVars == <<hash2pr, lookups, event_ids, calls, event_id>>

pkgVars == <<packages, versions, vnext, pkg_assets>>

matchVars == <<wfspec, matched>>

auxVars == <<refloor, gs, req, cci>>

extVars == <<ghVars, pkgVars, matchVars, not_started, auxVars>>

\* what get_event_id, get_package_assets and match leave alone
exceptGh == <<pkgVars, matchVars, not_started, auxVars>>

exceptPkg == <<ghVars, matchVars, not_started, auxVars>>

exceptMatch == <<ghVars, pkgVars, not_started, auxVars>>

dlVars == <<asset, disk, call, ret, commit, common_status, stVars, extVars>>

fetchVars == <<cfg, stateFile, file0, since_stamps, cur, feeds, feedno, last, trace,
               world, listed, snap, yielded, asset, disk, call, ret, commit,
               common_status, statefile, cwd, got, extVars>>

vars == <<pc, since, fetched, regs, floor, cfg, stateFile, file0, since_stamps,
          cur, feeds, feedno, last, trace, world, listed, snap, yielded,
          asset, disk, call, ret, commit, common_status, statefile, cwd, got,
          extVars>>

\* state.STATE_FILE
STATE_FILE == ".tinuous.state.json"

\* state.OLD_STATE_FILE
OLD_STATE_FILE == ".dlstate.json"

\* a file that does not exist
NoFile == [exists |-> FALSE, blank |-> FALSE,
           state |-> [github |-> NoTime, travis |-> NoTime, appveyor |-> NoTime]]

\* WorkflowRun.head_sha
Shas == {"a", "b"}

\* a GitHubActions object as constructed: hash2pr is empty
NoLookups ==
    /\ hash2pr = [s \in Shas |-> None]
    /\ lookups = [s \in Shas |-> 0]
    /\ event_ids = [s \in Shas |-> {}]
    /\ calls = [s \in Shas |-> 0]
    /\ event_id = None

\* no 'packages' entry in the configuration, no package at GitHub
NoPackages ==
    /\ packages = [configured |-> FALSE, include |-> {}]
    /\ versions = <<>>
    /\ vnext = 1
    /\ pkg_assets = {}

\* the default WorkflowSpec, no match call made
NoMatch ==
    /\ wfspec = [regex |-> FALSE, given |-> FALSE, include |-> {}, exclude |-> {}]
    /\ matched = [kind |-> None, arg |-> <<>>, result |-> FALSE]

\* no second new_since() call was made
NoAux ==
    /\ refloor = NoTime
    /\ gs = [since |-> NoTime, max_days_back |-> 0, now |-> 0,
             state_since |-> NoTime, result |-> NoTime]
    /\ req = [is_github |-> FALSE, i |-> 0, r |-> None, out |-> None, n |-> 0,
              only_retry |-> TRUE]
    /\ cci = [logs |-> TRUE, artifacts |-> FALSE, finished |-> FALSE,
              allowed |-> FALSE, jobs |-> <<>>, k |-> 1, bound |-> FALSE,
              nlogs |-> 0, narts |-> 0, out |-> None]

\* the state outside the fetch and the state file
NoExt ==
    /\ NoLookups
    /\ NoPackages
    /\ NoMatch
    /\ not_started = {}
    /\ NoAux

\* no StateFile object has been made
NoStateFile ==
    /\ statefile = [default_since |-> NoTime, path |-> None, state |-> NoFile.state,
                    migrating |-> FALSE, modified |-> FALSE]
    /\ cwd = [n \in {STATE_FILE, OLD_STATE_FILE} |-> NoFile]
    /\ got = [op |-> None, ciname |-> None, since |-> NoTime, path |-> None,
              value |-> NoTime, raised |-> None, migrated |-> FALSE,
              statefile |-> statefile, cwd |-> cwd]

\* no download() is followed step by step, no commit is asked for
NoDownload ==
    /\ commit = None
    /\ common_status = None
    /\ NoStateFile
    /\ NoExt
    /\ asset = [kind |-> None, package_type |-> None, owner |-> FALSE]
    /\ disk = [dir |-> "absent", file |-> "absent", tmp |-> "absent",
               metadata |-> FALSE, manifest |-> FALSE]
    /\ call = [dpc |-> "idle", f |-> None, i |-> 0, j |-> 0, bad |-> 0,
               exc |-> None, net |-> FALSE,
               had |-> FALSE, prior |-> FALSE, disk0 |-> disk]
    /\ ret = [result |-> "none", status |-> "none", net |-> FALSE, had |-> FALSE,
              prior |-> FALSE, same |-> TRUE, ok |-> FALSE,
              bad |-> 0, exc |-> None]

(***************************************************************************)
(* SpecTracker: one CISystem used directly, register_build called with any *)
(* timestamps later than since in any order, then new_since.               *)
(***************************************************************************)
InitTracker ==
    /\ pc = "tracker"
    /\ since \in TrackerTimes
    /\ fetched = <<>>
    /\ regs = <<>>
    /\ floor = NoTime
    /\ cfg = None
    /\ stateFile = None
    /\ file0 = None
    /\ since_stamps = None
    /\ cur = 0
    /\ feeds = <<>>
    /\ feedno = 0
    /\ last = NoTime
    /\ trace = <<>>
    /\ world = <<>>
    /\ listed = FALSE
    /\ snap = <<>>
    /\ yielded = {}
    /\ NoDownload

TrackerRegister ==
    /\ pc = "tracker"
    /\ Len(regs) < MaxRegs
    /\ \E ts \in TrackerTimes, processed \in BOOLEAN :
          /\ ts > since
          /\ fetched' = register_build(fetched, ts, processed)
          /\ regs' = Append(regs, <<ts, processed>>)
    /\ UNCHANGED <<pc, since, floor>>
    /\ UNCHANGED fetchVars

TrackerNewSince ==
    /\ pc = "tracker"
    /\ floor' = new_since(since, fetched).ts
    /\ fetched' = new_since(since, fetched).fetched
    /\ pc' = "tracker_done"
    /\ UNCHANGED <<since, regs>>
    /\ UNCHANGED fetchVars

\* new_since() is called again, no register_build in between
TrackerNewSinceAgain ==
    /\ pc = "tracker_done"
    /\ refloor' = new_since(since, fetched).ts
    /\ fetched' = new_since(since, fetched).fetched
    /\ pc' = "tracker_again"
    /\ UNCHANGED <<since, regs, floor>>
    /\ UNCHANGED <<cfg, stateFile, file0, since_stamps, cur, feeds, feedno, last,
                   trace, worldVars, asset, disk, call, ret, commit,
                   common_status, stVars, ghVars, pkgVars, matchVars, not_started,
                   gs, req, cci>>

NextTracker == TrackerRegister \/ TrackerNewSince \/ TrackerNewSinceAgain

SpecTracker == InitTracker /\ [][NextTracker]_vars

(***************************************************************************)
(* The providers and their events                                          *)
(***************************************************************************)
\* CIConfigDict.items() yields the configured providers in this order
Providers == <<"github", "travis", "appveyor", "circleci">>

ProviderNames == {Providers[i] : i \in 1..Len(Providers)}

\* EventType
EventTypes == {"cron", "push", "pr", "manual"}

\* EventType.from_gh_event: dict.get, None for an event that is not listed
from_gh_event(gh_event) ==
    CASE gh_event = "schedule" -> "cron"
      [] gh_event = "push" -> "push"
      [] gh_event = "pull_request" -> "pr"
      [] gh_event = "pull_request_target" -> "pr"
      [] gh_event = "workflow_dispatch" -> "manual"
      [] gh_event = "repository_dispatch" -> "manual"
      [] OTHER -> None

\* EventType.from_travis_event
from_travis_event(travis_event) ==
    CASE travis_event = "cron" -> "cron"
      [] travis_event = "push" -> "push"
      [] travis_event = "pull_request" -> "pr"
      [] travis_event = "api" -> "manual"
      [] OTHER -> None

\* Appveyor.get_build_assets: PULL_REQUEST if the build has a pullRequestId
\* (the event "pull_request" here), PUSH otherwise
appveyor_event(ev_event) ==
    IF ev_event = "pull_request" THEN "pr" ELSE "push"

\* circleci.TriggerType.as_event_type
as_event_type(trigger_type) ==
    CASE trigger_type = "scheduled_pipeline" -> "cron"
      [] trigger_type = "explicit" -> "manual"
      [] trigger_type = "api" -> "manual"
      [] trigger_type = "webhook" -> "push"
      [] trigger_type = "Decoupled Ingestion System" -> "push"
      [] trigger_type = "unknown" -> "manual"

\* the trigger kind the provider's get_build_assets computes for an event
run_event(name, ev_event) ==
    CASE name = "github" -> from_gh_event(ev_event)
      [] name = "travis" -> from_travis_event(ev_event)
      [] name = "appveyor" -> appveyor_event(ev_event)
      [] name = "circleci" -> as_event_type(ev_event)

\* native event types the feeds carry; "release" is not in Travis's table
NativeEvents(name) ==
    IF name = "travis" THEN {"push", "pull_request", "release"}
    ELSE IF name = "circleci" THEN {"webhook", "scheduled_pipeline"}
    ELSE {"push", "pull_request"}

\* An event of a feed: a workflow run / build (done: completed / finished) or
\* a release (done: published, i.e. neither draft nor prerelease).  id names
\* the event in a stored world, 0 otherwise.
BuildEvents(name) ==
    [id : {0}, ts : FeedTimes, done : BOOLEAN, event : NativeEvents(name)]

ReleaseEvents ==
    [id : {0}, ts : FeedTimes, done : BOOLEAN, event : {"release"}]

\* the feeds one CISystem reads in a fetch: GitHub lists the runs of each of
\* its (two) workflows, then the releases; the others list their builds.
\* get_build_assets returns at once when no logs are asked for.
FeedsOf(name, c) ==
    (IF ~c.logs THEN <<>>
     ELSE IF name = "github" THEN <<"runs", "runs">> ELSE <<"builds">>)
    \o (IF name = "github" /\ c.releases THEN <<"releases">> ELSE <<>>)

(***************************************************************************)
(* One iteration of the loop of get_build_assets / get_release_assets:     *)
(* what is done with the event ev.  Result: stop (break), raised, reg (the *)
(* register_build call: "none", "true", "false"), assets (assets yielded), *)
(* fetched (the heap afterwards).                                          *)
(***************************************************************************)
Outcome(stop, raised, reg, assets, heap) ==
    [stop |-> stop, raised |-> raised, reg |-> reg, assets |-> assets,
     fetched |-> heap]

too_new(until_, ts) == until_ # NoTime /\ ts > until_

\* mutant of build_step: builds at or before since are taken as well
build_step_no_floor(name, ev, since_, until_, types, heap) ==
    IF name = "travis" /\ run_event(name, ev.event) = None
    THEN Outcome(FALSE, TRUE, "none", 0, heap)
    ELSE IF name = "travis" /\ ev.ts = NoTime
    THEN Outcome(FALSE, FALSE, "none", 0, heap)
    ELSE IF too_new(until_, ev.ts)
    THEN Outcome(FALSE, FALSE, "none", 0, heap)
    ELSE IF ~ev.done
    THEN Outcome(FALSE, FALSE, "false", 0, register_build(heap, ev.ts, FALSE))
    ELSE Outcome(FALSE, FALSE, "true",
                 IF run_event(name, ev.event) \in types THEN 1 ELSE 0,
                 register_build(heap, ev.ts, TRUE))

\* mutant of build_step: `continue` where the code has `break`
build_step_continue(name, ev, since_, until_, types, heap) ==
    IF name = "travis" /\ run_event(name, ev.event) = None
    THEN Outcome(FALSE, TRUE, "none", 0, heap)
    ELSE IF ev.ts <= since_ \/ too_new(until_, ev.ts)
    THEN Outcome(FALSE, FALSE, "none", 0, heap)
    ELSE IF ~ev.done
    THEN Outcome(FALSE, FALSE, "false", 0, register_build(heap, ev.ts, FALSE))
    ELSE Outcome(FALSE, FALSE, "true",
                 IF run_event(name, ev.event) \in types THEN 1 ELSE 0,
                 register_build(heap, ev.ts, TRUE))

\* mutant of build_step: a run is registered only when its type is wanted
build_step_wanted_only(name, ev, since_, until_, types, heap) ==
    IF name = "travis" /\ run_event(name, ev.event) = None
    THEN Outcome(FALSE, TRUE, "none", 0, heap)
    ELSE IF ev.ts <= since_
    THEN Outcome(TRUE, FALSE, "none", 0, heap)
    ELSE IF too_new(until_, ev.ts)
    THEN Outcome(FALSE, FALSE, "none", 0, heap)
    ELSE IF ~ev.done
    THEN Outcome(FALSE, FALSE, "false", 0, register_build(heap, ev.ts, FALSE))
    ELSE IF run_event(name, ev.event) \in types
    THEN Outcome(FALSE, FALSE, "true", 1, register_build(heap, ev.ts, TRUE))
    ELSE Outcome(FALSE, FALSE, "none", 0, heap)

\* mutant of build_step: a run that is not completed is not registered
build_step_drop_incomplete(name, ev, since_, until_, types, heap) ==
    IF name = "travis" /\ run_event(name, ev.event) = None
    THEN Outcome(FALSE, TRUE, "none", 0, heap)
    ELSE IF ev.ts <= since_
    THEN Outcome(TRUE, FALSE, "none", 0, heap)
    ELSE IF too_new(until_, ev.ts) \/ ~ev.done
    THEN Outcome(FALSE, FALSE, "none", 0, heap)
    ELSE Outcome(FALSE, FALSE, "true",
                 IF run_event(name, ev.event) \in types THEN 1 ELSE 0,
                 register_build(heap, ev.ts, TRUE))

\* GitHubActions / Travis / Appveyor .get_build_assets, one build
build_step(name, ev, since_, until_, types, heap) ==
    IF name = "travis" /\ run_event(name, ev.event) = None
    THEN \* raise ValueError("Build has unknown event type")
         Outcome(FALSE, TRUE, "none", 0, heap)
    ELSE IF name = "travis" /\ ev.ts = NoTime
    THEN \* started_at is None: "not started; skipping", continue
         Outcome(FALSE, FALSE, "none", 0, heap)
    ELSE IF ev.ts <= since_
    THEN \* break
         Outcome(TRUE, FALSE, "none", 0, heap)
    ELSE IF too_new(until_, ev.ts)
    THEN \* "too new; skipping"
         Outcome(FALSE, FALSE, "none", 0, heap)
    ELSE IF ~ev.done
    THEN \* "not completed; skipping"
         Outcome(FALSE, FALSE, "false", 0, register_build(heap, ev.ts, FALSE))
    ELSE Outcome(FALSE, FALSE, "true",
                 IF run_event(name, ev.event) \in types THEN 1 ELSE 0,
                 register_build(heap, ev.ts, TRUE))

\* GitHubActions.get_release_assets, one release
release_step(ev, since_, until_, heap) ==
    IF ~ev.done
    THEN \* draft or prerelease: continue
         Outcome(FALSE, FALSE, "none", 0, heap)
    ELSE IF ev.ts <= since_ \/ too_new(until_, ev.ts)
    THEN \* continue
         Outcome(FALSE, FALSE, "none", 0, heap)
    ELSE Outcome(FALSE, FALSE, "true", 1, register_build(heap, ev.ts, TRUE))

\* CircleCI.get_build_assets, one pipeline of GitHub (done: every workflow
\* of the pipeline has finished).  The test for a pipeline that is too new
\* only logs: the statements after it are not in its else branch.
pipeline_step(ev, since_, until_, types, heap) ==
    IF ev.ts <= since_
    THEN \* break
         Outcome(TRUE, FALSE, "none", 0, heap)
    ELSE IF ~ev.done
    THEN \* "not completed; skipping"
         Outcome(FALSE, FALSE, "false", 0, register_build(heap, ev.ts, FALSE))
    ELSE Outcome(FALSE, FALSE, "true",
                 IF as_event_type(ev.event) \in types THEN 1 ELSE 0,
                 register_build(heap, ev.ts, TRUE))

feed_step(name, kind, ev, since_, until_, types, heap) ==
    IF kind = "releases"
    THEN release_step(ev, since_, until_, heap)
    ELSE IF name = "circleci"
    THEN pipeline_step(ev, since_, until_, types, heap)
    ELSE build_step(name, ev, since_, until_, types, heap)

(***************************************************************************)
(* fetch: for each configured provider, build its CISystem with the floor  *)
(* of the state file (cfg.since if there is none), download every asset    *)
(* its feeds yield, take new_since(); write the state file after the loop. *)
(***************************************************************************)
CiLists ==
    {<<"github">>, <<"travis">>, <<"appveyor">>, <<"travis", "appveyor">>}

Configs ==
    [ci : CiLists,
     types : {EventTypes, {"push"}},
     since : {30},
     until : {NoTime, 40},
     logs : BOOLEAN,
     releases : BOOLEAN]

InList(name, list) == \E i \in 1..Len(list) : list[i] = name

name_ == cfg.ci[cur]

\* cicfg.get_system(since=...): a new CISystem for provider n
get_system(n, stamps) ==
    /\ since' = IF stamps[n] # NoTime THEN stamps[n] ELSE cfg.since
    /\ fetched' = <<>>
    /\ regs' = <<>>
    /\ trace' = <<>>
    /\ floor' = NoTime
    /\ feeds' = FeedsOf(n, cfg)
    /\ feedno' = 1
    /\ last' = NoTime

Init ==
    /\ pc = "idle"
    /\ cfg \in {c \in Configs : c.releases => InList("github", c.ci)}
    /\ stateFile \in {f \in [ProviderNames -> {NoTime, 35}] :
                        \A n \in ProviderNames : f[n] # NoTime => InList(n, cfg.ci)}
    /\ file0 = stateFile
    /\ since_stamps = stateFile
    /\ cur = 0
    /\ since = cfg.since
    /\ fetched = <<>>
    /\ regs = <<>>
    /\ floor = NoTime
    /\ feeds = <<>>
    /\ feedno = 0
    /\ last = NoTime
    /\ trace = <<>>
    /\ world = <<>>
    /\ listed = FALSE
    /\ snap = <<>>
    /\ yielded = {}
    /\ NoDownload

\* fetch up to the first provider's CISystem
fetch_start ==
    /\ pc = "idle"
    /\ commit = None
    /\ since_stamps' = stateFile
    /\ file0' = stateFile
    /\ cur' = 1
    /\ get_system(cfg.ci[1], stateFile)
    /\ pc' = "traverse"
    /\ UNCHANGED <<cfg, stateFile>>
    /\ UNCHANGED worldVars
    /\ UNCHANGED dlVars

\* the loop body of get_build_assets / get_release_assets for the event ev
process(ev) ==
    LET o == feed_step(name_, Head(feeds), ev, since, cfg.until, cfg.types, fetched)
    IN  /\ fetched' = o.fetched
        /\ regs' = IF o.reg = "none" THEN regs
                   ELSE Append(regs, <<ev.ts, o.reg = "true">>)
        /\ trace' = Append(trace, [feed |-> feedno, kind |-> Head(feeds), ev |-> ev,
                                   stop |-> o.stop, raised |-> o.raised,
                                   reg |-> o.reg, assets |-> o.assets])
        /\ feeds' = IF o.stop THEN Tail(feeds) ELSE feeds
        /\ feedno' = IF o.stop THEN feedno + 1 ELSE feedno
        /\ last' = IF o.stop THEN NoTime ELSE ev.ts
        /\ pc' = IF o.raised THEN "aborted"
                 ELSE IF o.assets > 0 THEN "download" ELSE "traverse"

\* the next item of the current feed arrives: builds come newest first
next_event ==
    /\ pc = "traverse"
    /\ feeds # <<>>
    /\ Len(trace) < MaxEvents
    /\ \E ev \in (IF Head(feeds) = "releases" THEN ReleaseEvents
                  ELSE BuildEvents(name_)) :
          /\ Head(feeds) # "releases" /\ last # NoTime => ev.ts <= last
          /\ process(ev)
    /\ UNCHANGED <<since, floor, cfg, stateFile, file0, since_stamps, cur>>
    /\ UNCHANGED worldVars
    /\ UNCHANGED dlVars

\* the current feed has no more items
feed_exhausted ==
    /\ pc = "traverse"
    /\ feeds # <<>>
    /\ feeds' = Tail(feeds)
    /\ feedno' = feedno + 1
    /\ last' = NoTime
    /\ UNCHANGED <<pc, since, fetched, regs, floor, cfg, stateFile, file0,
                   since_stamps, cur, trace>>
    /\ UNCHANGED worldVars
    /\ UNCHANGED dlVars

\* a request for the feed fails (APIClient.get raises): fetch ends
feed_raises ==
    /\ pc = "traverse"
    /\ feeds # <<>>
    /\ pc' = "aborted"
    /\ UNCHANGED <<since, fetched, regs, floor, cfg, stateFile, file0,
                   since_stamps, cur, feeds, feedno, last, trace>>
    /\ UNCHANGED worldVars
    /\ UNCHANGED dlVars

\* obj.download(path) returns
download ==
    /\ pc = "download"
    /\ pc' = "traverse"
    /\ UNCHANGED <<since, fetched, regs, floor, cfg, stateFile, file0,
                   since_stamps, cur, feeds, feedno, last, trace>>
    /\ UNCHANGED worldVars
    /\ UNCHANGED dlVars

\* obj.download(path) raises: fetch ends
download_raises ==
    /\ pc = "download"
    /\ pc' = "aborted"
    /\ UNCHANGED <<since, fetched, regs, floor, cfg, stateFile, file0,
                   since_stamps, cur, feeds, feedno, last, trace>>
    /\ UNCHANGED worldVars
    /\ UNCHANGED dlVars

\* mutant of finish_provider: the floor is written to the state file at once
finish_provider_writes ==
    /\ pc = "traverse"
    /\ feeds = <<>>
    /\ floor' = new_since(since, fetched).ts
    /\ fetched' = new_since(since, fetched).fetched
    /\ since_stamps' = [since_stamps EXCEPT ![name_] = new_since(since, fetched).ts]
    /\ stateFile' = since_stamps'
    /\ pc' = "provider_done"
    /\ UNCHANGED <<since, regs, cfg, file0, cur, feeds, feedno, last, trace>>
    /\ UNCHANGED worldVars
    /\ UNCHANGED dlVars

\* since_stamps[name] = ci.new_since()
finish_provider ==
    /\ pc = "traverse"
    /\ feeds = <<>>
    /\ floor' = new_since(since, fetched).ts
    /\ fetched' = new_since(since, fetched).fetched
    /\ since_stamps' = [since_stamps EXCEPT ![name_] = new_since(since, fetched).ts]
    /\ pc' = "provider_done"
    /\ UNCHANGED <<since, regs, cfg, stateFile, file0, cur, feeds, feedno, last, trace>>
    /\ UNCHANGED worldVars
    /\ UNCHANGED dlVars

\* the loop goes on to the next configured provider
next_provider ==
    /\ pc = "provider_done"
    /\ cur < Len(cfg.ci)
    /\ cur' = cur + 1
    /\ get_system(cfg.ci[cur + 1], since_stamps)
    /\ pc' = "traverse"
    /\ UNCHANGED <<cfg, stateFile, file0, since_stamps>>
    /\ UNCHANGED worldVars
    /\ UNCHANGED dlVars

\* after the loop: json.dump(since_stamps) to the state file
write_state ==
    /\ pc = "provider_done"
    /\ cur = Len(cfg.ci)
    /\ stateFile' = since_stamps
    /\ pc' = "written"
    /\ UNCHANGED <<since, fetched, regs, floor, cfg, file0, since_stamps, cur,
                   feeds, feedno, last, trace>>
    /\ UNCHANGED worldVars
    /\ UNCHANGED dlVars

Next ==
    \/ fetch_start
    \/ next_event
    \/ feed_exhausted
    \/ feed_raises
    \/ download
    \/ download_raises
    \/ finish_provider
    \/ next_provider
    \/ write_state

Spec == Init /\ [][Next]_vars

(***************************************************************************)
(* SpecCircleCI: fetch for CircleCI alone, with and without until.         *)
(***************************************************************************)
InitCircleCI ==
    /\ pc = "idle"
    /\ cfg \in [ci : {<<"circleci">>},
                types : {EventTypes, {"push"}},
                since : {30},
                until : {NoTime, 40},
                logs : BOOLEAN,
                releases : {FALSE}]
    /\ stateFile \in [ProviderNames -> {NoTime, 35}]
    /\ \A n \in ProviderNames : stateFile[n] # NoTime => n = "circleci"
    /\ file0 = stateFile
    /\ since_stamps = stateFile
    /\ cur = 0
    /\ since = cfg.since
    /\ fetched = <<>>
    /\ regs = <<>>
    /\ floor = NoTime
    /\ feeds = <<>>
    /\ feedno = 0
    /\ last = NoTime
    /\ trace = <<>>
    /\ world = <<>>
    /\ listed = FALSE
    /\ snap = <<>>
    /\ yielded = {}
    /\ NoDownload

NextCircleCI ==
    \/ fetch_start
    \/ next_event
    \/ feed_exhausted
    \/ feed_raises
    \/ download
    \/ download_raises
    \/ finish_provider
    \/ write_state

SpecCircleCI == InitCircleCI /\ [][NextCircleCI]_vars

(***************************************************************************)
(* SpecRuns: fetch run again and again for GitHub alone, each run starting *)
(* from the state file the run before wrote, against a stored world: runs  *)
(* are created in progress with increasing created_at, each in one of the  *)
(* two workflows, and a run only ever changes from in progress to          *)
(* completed.  A feed is the answer to one request: the runs of one        *)
(* workflow as they are when its listing is requested, newest first.       *)
(* Nothing raises and until is not set.                                    *)
(***************************************************************************)
RECURSIVE runs_of(_, _)
\* the runs of workflow wf in w, newest first
runs_of(w, wf) ==
    IF w = <<>> THEN <<>>
    ELSE LET e == w[Len(w)]
             older == runs_of(SubSeq(w, 1, Len(w) - 1), wf)
         IN  IF e.wf = wf
             THEN <<[id |-> e.id, ts |-> e.ts, done |-> e.done, event |-> e.event]>>
                  \o older
             ELSE older

InitRuns ==
    /\ pc = "idle"
    /\ cfg \in [ci : {<<"github">>},
                types : {{"push"}},
                since : {30},
                until : {NoTime},
                logs : {TRUE},
                releases : {FALSE}]
    /\ stateFile = [n \in ProviderNames |-> NoTime]
    /\ file0 = stateFile
    /\ since_stamps = stateFile
    /\ cur = 0
    /\ since = cfg.since
    /\ fetched = <<>>
    /\ regs = <<>>
    /\ floor = NoTime
    /\ feeds = <<>>
    /\ feedno = 0
    /\ last = NoTime
    /\ trace = <<>>
    /\ world = <<>>
    /\ listed = FALSE
    /\ snap = <<>>
    /\ yielded = {}
    /\ NoDownload

\* a workflow run is created at GitHub, later than every run there is
new_run ==
    /\ Len(world) < MaxWorld
    /\ \E ts \in FeedTimes, wf \in {1, 2}, event \in NativeEvents("github") :
          /\ \A i \in 1..Len(world) : world[i].ts < ts
          /\ world' = Append(world, [id |-> Len(world) + 1, ts |-> ts, done |-> FALSE,
                                     event |-> event, wf |-> wf])
    /\ UNCHANGED <<pc, since, fetched, regs, floor, cfg, stateFile, file0,
                   since_stamps, cur, feeds, feedno, last, trace, listed, snap,
                   yielded>>
    /\ UNCHANGED dlVars

\* a workflow run completes
run_completes ==
    /\ \E i \in 1..Len(world) :
          /\ ~world[i].done
          /\ world' = [world EXCEPT ![i].done = TRUE]
    /\ UNCHANGED <<pc, since, fetched, regs, floor, cfg, stateFile, file0,
                   since_stamps, cur, feeds, feedno, last, trace, listed, snap,
                   yielded>>
    /\ UNCHANGED dlVars

\* get_runs: the request for the runs of the current workflow
list_runs ==
    /\ pc = "traverse"
    /\ feeds # <<>>
    /\ ~listed
    /\ listed' = TRUE
    /\ snap' = runs_of(world, feedno)
    /\ UNCHANGED <<pc, since, fetched, regs, floor, cfg, stateFile, file0,
                   since_stamps, cur, feeds, feedno, last, trace, world, yielded>>
    /\ UNCHANGED dlVars

\* the loop body of get_build_assets for the next run of the listing
listed_event ==
    /\ pc = "traverse"
    /\ listed
    /\ snap # <<>>
    /\ process(Head(snap))
    /\ snap' = IF feeds' # feeds THEN <<>> ELSE Tail(snap)
    /\ listed' = (feeds' = feeds)
    /\ yielded' = IF pc' = "download" THEN yielded \cup {Head(snap).id} ELSE yielded
    /\ UNCHANGED <<since, floor, cfg, stateFile, file0, since_stamps, cur, world>>
    /\ UNCHANGED dlVars

\* the listing has no more runs
listing_exhausted ==
    /\ pc = "traverse"
    /\ listed
    /\ snap = <<>>
    /\ feeds' = Tail(feeds)
    /\ feedno' = feedno + 1
    /\ last' = NoTime
    /\ listed' = FALSE
    /\ UNCHANGED <<pc, since, fetched, regs, floor, cfg, stateFile, file0,
                   since_stamps, cur, trace, world, snap, yielded>>
    /\ UNCHANGED dlVars

\* fetch is run again
fetch_again ==
    /\ pc = "written"
    /\ pc' = "idle"
    /\ UNCHANGED <<since, fetched, regs, floor, cfg, stateFile, file0,
                   since_stamps, cur, feeds, feedno, last, trace>>
    /\ UNCHANGED worldVars
    /\ UNCHANGED dlVars

RunStep ==
    \/ fetch_start
    \/ list_runs
    \/ listed_event
    \/ listing_exhausted
    \/ download
    \/ finish_provider
    \/ write_state
    \/ fetch_again

NextRuns ==
    \/ new_run
    \/ run_completes
    \/ RunStep

\* every run of fetch goes on to its end and fetch is run again
SpecRuns == InitRuns /\ [][NextRuns]_vars /\ WF_vars(RunStep)

(***************************************************************************)
(* SpecTravis: fetch run again and again for Travis alone against a stored *)
(* world: builds are created not started, in the order of their numbers;   *)
(* a build starts at a time later than every start so far, and a started   *)
(* build finishes.  The listing gives the builds as they are when it is    *)
(* requested, highest number first.  Nothing raises and until is not set.  *)
(***************************************************************************)
RECURSIVE builds_of(_)
\* the builds in w, highest number first
builds_of(w) ==
    IF w = <<>> THEN <<>>
    ELSE LET e == w[Len(w)]
         IN  <<[id |-> e.id, ts |-> e.ts, done |-> e.done, event |-> e.event]>>
             \o builds_of(SubSeq(w, 1, Len(w) - 1))

InitTravis ==
    /\ pc = "idle"
    /\ cfg \in [ci : {<<"travis">>},
                types : {{"push"}},
                since : {30},
                until : {NoTime},
                logs : {TRUE},
                releases : {FALSE}]
    /\ stateFile = [n \in ProviderNames |-> NoTime]
    /\ file0 = stateFile
    /\ since_stamps = stateFile
    /\ cur = 0
    /\ since = cfg.since
    /\ fetched = <<>>
    /\ regs = <<>>
    /\ floor = NoTime
    /\ feeds = <<>>
    /\ feedno = 0
    /\ last = NoTime
    /\ trace = <<>>
    /\ world = <<>>
    /\ listed = FALSE
    /\ snap = <<>>
    /\ yielded = {}
    /\ NoDownload

\* a build is created at Travis: it has the next number and has not started
new_build ==
    /\ Len(world) < MaxWorld
    /\ \E event \in {"push", "pull_request"} :
          world' = Append(world, [id |-> Len(world) + 1, ts |-> NoTime,
                                  done |-> FALSE, event |-> event, wf |-> 1])
    /\ UNCHANGED <<pc, since, fetched, regs, floor, cfg, stateFile, file0,
                   since_stamps, cur, feeds, feedno, last, trace, listed, snap,
                   yielded>>
    /\ UNCHANGED dlVars

\* a build starts: started_at is later than every started_at so far
build_starts ==
    /\ \E i \in 1..Len(world), ts \in FeedTimes :
          /\ world[i].ts = NoTime
          /\ ts > cfg.since
          /\ \A j \in 1..Len(world) : world[j].ts < ts
          /\ world' = [world EXCEPT ![i].ts = ts]
    /\ UNCHANGED <<pc, since, fetched, regs, floor, cfg, stateFile, file0,
                   since_stamps, cur, feeds, feedno, last, trace, listed, snap,
                   yielded>>
    /\ UNCHANGED dlVars

\* a started build finishes
build_finishes ==
    /\ \E i \in 1..Len(world) :
          /\ world[i].ts # NoTime
          /\ ~world[i].done
          /\ world' = [world EXCEPT ![i].done = TRUE]
    /\ UNCHANGED <<pc, since, fetched, regs, floor, cfg, stateFile, file0,
                   since_stamps, cur, feeds, feedno, last, trace, listed, snap,
                   yielded>>
    /\ UNCHANGED dlVars

\* paginate: the request for the builds
list_builds ==
    /\ pc = "traverse"
    /\ feeds # <<>>
    /\ ~listed
    /\ listed' = TRUE
    /\ snap' = builds_of(world)
    /\ UNCHANGED <<pc, since, fetched, regs, floor, cfg, stateFile, file0,
                   since_stamps, cur, feeds, feedno, last, trace, world, yielded>>
    /\ UNCHANGED dlVars

\* the loop body of Travis.get_build_assets for the next build of the listing
listed_build ==
    /\ pc = "traverse"
    /\ listed
    /\ snap # <<>>
    /\ process(Head(snap))
    /\ snap' = IF feeds' # feeds THEN <<>> ELSE Tail(snap)
    /\ listed' = (feeds' = feeds)
    /\ yielded' = IF pc' = "download" THEN yielded \cup {Head(snap).id} ELSE yielded
    /\ not_started' = IF Head(snap).ts = NoTime
                      THEN not_started \cup {Head(snap).id}
                      ELSE not_started
    /\ UNCHANGED <<since, floor, cfg, stateFile, file0, since_stamps, cur, world>>
    /\ UNCHANGED <<asset, disk, call, ret, commit, common_status, stVars,
                   ghVars, pkgVars, matchVars, auxVars>>

TravisStep ==
    \/ fetch_start
    \/ list_builds
    \/ listed_build
    \/ listing_exhausted
    \/ download
    \/ finish_provider
    \/ write_state
    \/ fetch_again

NextTravis ==
    \/ new_build
    \/ build_starts
    \/ build_finishes
    \/ TravisStep

\* every run of fetch goes on to its end and fetch is run again
SpecTravis == InitTravis /\ [][NextTravis]_vars /\ WF_vars(TravisStep)

(***************************************************************************)
(* SpecGitHub: one call of GitHubActions.get_build_assets (inside fetch)   *)
(* or of get_build_assets_for_commit, over a fixed set of workflow runs,   *)
(* each with its head commit.  Nothing raises on the network.              *)
(***************************************************************************)
\* workflow runs at GitHub
MaxRuns == 3

\* run.created_at of the n-th run
RunTime(n) == 30 + 5 * n

\* the events GitHub gives to runs: workflow_run is not in from_gh_event
GitHubEvents == {"push", "pull_request", "workflow_run"}

Worlds ==
    {w \in [1..MaxRuns -> [id : 1..MaxRuns, ts : {RunTime(n) : n \in 1..MaxRuns},
                           done : BOOLEAN, event : GitHubEvents, wf : {1, 2},
                           sha : Shas]] :
        \A n \in 1..MaxRuns : w[n].id = n /\ w[n].ts = RunTime(n)}

RECURSIVE runs_for_head(_, _, _)
\* get_runs_for_head: the runs of workflow wf with head_sha = sha, newest first
runs_for_head(w, wf, sha) ==
    IF w = <<>> THEN <<>>
    ELSE LET e == w[Len(w)]
             older == runs_for_head(SubSeq(w, 1, Len(w) - 1), wf, sha)
         IN  IF e.wf = wf /\ e.sha = sha
             THEN <<[id |-> e.id, ts |-> e.ts, done |-> e.done, event |-> e.event]>>
                  \o older
             ELSE older

\* mutant of commit_step: a completed run yields whatever its event type
commit_step_any_type(ev, types) == IF ev.done THEN 1 ELSE 0

\* the loop body of get_build_assets_for_commit: the assets the run yields
commit_step(ev, types) ==
    IF ~ev.done THEN 0
    ELSE IF from_gh_event(ev.event) \in types THEN 1 ELSE 0

\* mutant of commit_fetched: the run is registered as get_build_assets
\* registers it
commit_fetched_registers(heap, ev) == register_build(heap, ev.ts, ev.done)

\* self.fetched after the loop body of get_build_assets_for_commit for the
\* run ev: the body has no register_build call
commit_fetched(heap, ev) == heap

InitGitHub ==
    /\ pc = "idle"
    /\ world \in Worlds
    /\ commit \in {None, "a"}
    /\ cfg \in [ci : {<<"github">>},
                types : {EventTypes, {"pr"}},
                since : {30},
                until : {NoTime},
                logs : {TRUE},
                releases : {FALSE}]
    /\ stateFile = [n \in ProviderNames |-> NoTime]
    /\ file0 = stateFile
    /\ since_stamps = stateFile
    /\ cur = 0
    /\ since = cfg.since
    /\ fetched = <<>>
    /\ regs = <<>>
    /\ floor = NoTime
    /\ feeds = <<>>
    /\ feedno = 0
    /\ last = NoTime
    /\ trace = <<>>
    /\ listed = FALSE
    /\ snap = <<>>
    /\ yielded = {}
    /\ asset = [kind |-> None, package_type |-> None, owner |-> FALSE]
    /\ disk = [dir |-> "absent", file |-> "absent", tmp |-> "absent",
               metadata |-> FALSE, manifest |-> FALSE]
    /\ call = [dpc |-> "idle", f |-> None, i |-> 0, j |-> 0, bad |-> 0,
               exc |-> None, net |-> FALSE,
               had |-> FALSE, prior |-> FALSE, disk0 |-> disk]
    /\ ret = [result |-> "none", status |-> "none", net |-> FALSE, had |-> FALSE,
              prior |-> FALSE, same |-> TRUE, ok |-> FALSE,
              bad |-> 0, exc |-> None]
    /\ common_status = None
    /\ NoStateFile
    /\ NoExt

\* get_build_assets_for_commit is called
commit_start ==
    /\ pc = "idle"
    /\ commit # None
    /\ pc' = "commit"
    /\ cur' = 1
    /\ feeds' = <<"runs", "runs">>
    /\ feedno' = 1
    /\ UNCHANGED <<since, fetched, regs, floor, cfg, stateFile, file0,
                   since_stamps, last, trace>>
    /\ UNCHANGED worldVars
    /\ UNCHANGED dlVars

\* get_runs_for_head: the request for the commit's runs of the current workflow
list_runs_for_head ==
    /\ pc = "commit"
    /\ feeds # <<>>
    /\ ~listed
    /\ listed' = TRUE
    /\ snap' = runs_for_head(world, feedno, commit)
    /\ UNCHANGED <<pc, since, fetched, regs, floor, cfg, stateFile, file0,
                   since_stamps, cur, feeds, feedno, last, trace, world, yielded>>
    /\ UNCHANGED dlVars

\* the loop body of get_build_assets_for_commit for the next run
commit_event ==
    /\ pc = "commit"
    /\ listed
    /\ snap # <<>>
    /\ LET ev == Head(snap)
           n == commit_step(ev, cfg.types)
       IN  /\ trace' = Append(trace, [feed |-> feedno, kind |-> "runs", ev |-> ev,
                                      stop |-> FALSE, raised |-> FALSE,
                                      reg |-> "none", assets |-> n])
           /\ yielded' = IF n > 0 THEN yielded \cup {ev.id} ELSE yielded
           /\ pc' = IF n > 0 THEN "commit_download" ELSE "commit"
           /\ fetched' = commit_fetched(fetched, ev)
    /\ snap' = Tail(snap)
    /\ UNCHANGED <<since, regs, floor, cfg, stateFile, file0,
                   since_stamps, cur, feeds, feedno, last, world, listed>>
    /\ UNCHANGED dlVars

\* the caller takes the asset and asks for the next one
commit_download ==
    /\ pc = "commit_download"
    /\ pc' = "commit"
    /\ UNCHANGED <<since, fetched, regs, floor, cfg, stateFile, file0,
                   since_stamps, cur, feeds, feedno, last, trace>>
    /\ UNCHANGED worldVars
    /\ UNCHANGED dlVars

\* the workflow has no more runs for the commit
commit_listing_exhausted ==
    /\ pc = "commit"
    /\ listed
    /\ snap = <<>>
    /\ feeds' = Tail(feeds)
    /\ feedno' = feedno + 1
    /\ listed' = FALSE
    /\ UNCHANGED <<pc, since, fetched, regs, floor, cfg, stateFile, file0,
                   since_stamps, cur, last, trace, world, snap, yielded>>
    /\ UNCHANGED dlVars

\* get_build_assets_for_commit is exhausted
commit_done ==
    /\ pc = "commit"
    /\ feeds = <<>>
    /\ pc' = "commit_done"
    /\ UNCHANGED <<since, fetched, regs, floor, cfg, stateFile, file0,
                   since_stamps, cur, feeds, feedno, last, trace>>
    /\ UNCHANGED worldVars
    /\ UNCHANGED dlVars

NextGitHub ==
    \/ fetch_start
    \/ list_runs
    \/ listed_event
    \/ listing_exhausted
    \/ download
    \/ finish_provider
    \/ write_state
    \/ commit_start
    \/ list_runs_for_head
    \/ commit_event
    \/ commit_download
    \/ commit_listing_exhausted
    \/ commit_done

SpecGitHub == InitGitHub /\ [][NextGitHub]_vars

(***************************************************************************)
(* SpecDownload: the download() of one asset, step by step, inside fetch.  *)
(* The asset's event was registered as processed before the asset was      *)
(* yielded; a download() that returns lets fetch go on to new_since() and  *)
(* the state file, one that raises ends fetch.  The asset is yielded again *)
(* by a later fetch that starts from cfg.since.  The server answers each   *)
(* request as it likes.                                                    *)
(***************************************************************************)
\* APIClient.MAX_RETRIES
MAX_RETRIES == 12

\* APIClient.ZIPFILE_RETRIES
ZIPFILE_RETRIES == 5

\* created_at of the event the asset belongs to
AssetTime == 40

\* downloaded as a zip file and extracted into a directory
ZipKinds == {"GHABuildLog", "GHAArtifact"}

\* downloaded into one file
FileKinds == {"GHReleaseAsset", "TravisJobLog"}

\* the assets that hold the logs of a build
LogKinds == {"GHABuildLog", "TravisJobLog"}

\* the subclasses of BuildAsset: they carry the build's native status
BuildKinds == {"GHABuildLog", "GHAArtifact", "TravisJobLog"}

\* the keys of COMMON_STATUS_MAP
MappedStatuses ==
    {"success", "passed", "failure", "failed", "errored", "timed_out",
     "startup_failure", "neutral", "action_required", "cancelled", "canceled",
     "skipped", "stale", "started", "retried", "infrastructure_fail", "timedout",
     "not_run", "running", "queued", "not_running", "no_tests", "fixed"}

COMMON_STATUS_MAP ==
    [s \in MappedStatuses |->
        CASE s \in {"success", "passed", "no_tests", "fixed"} -> "success"
          [] s \in {"failure", "failed"} -> "failed"
          [] s \in {"errored", "timed_out", "startup_failure",
                    "infrastructure_fail", "timedout"} -> "errored"
          [] OTHER -> "incomplete"]

\* the statuses a provider may report: the mapped ones and one that is not
NativeStatuses == MappedStatuses \cup {"waiting"}

\* mutant of path_fields_common_status: a status that is not mapped counts
\* as success
path_fields_default_success(status) ==
    IF status \in DOMAIN COMMON_STATUS_MAP THEN COMMON_STATUS_MAP[status]
    ELSE "success"

\* BuildAsset.path_fields: COMMON_STATUS_MAP[self.status].value
path_fields_common_status(status) ==
    IF status \in DOMAIN COMMON_STATUS_MAP THEN COMMON_STATUS_MAP[status]
    ELSE "KeyError"

Assets ==
    [kind : BuildKinds, package_type : {None}, owner : {FALSE},
     status : NativeStatuses]
    \cup [kind : {"GHReleaseAsset"}, package_type : {None}, owner : {FALSE},
          status : {None}]
    \cup [kind : {"GHPackageAsset"}, package_type : {"container", "npm"},
          owner : BOOLEAN, status : {None}]

EmptyDisk ==
    [dir |-> "absent", file |-> "absent", tmp |-> "absent",
     metadata |-> FALSE, manifest |-> FALSE]

IdleCall ==
    [dpc |-> "idle", f |-> None, i |-> 0, j |-> 0, bad |-> 0,
     exc |-> None, net |-> FALSE,
     had |-> FALSE, prior |-> FALSE, disk0 |-> EmptyDisk]

\* the target has content: a non-empty directory, an existing file
has_content(kind, d) ==
    IF kind \in FileKinds THEN d.file # "absent"
    ELSE d.dir \in {"partial", "content"}

\* mutant of already_downloaded: nothing is ever taken as downloaded
already_downloaded_never(kind, d) == FALSE

\* mutant of already_downloaded: a package counts as downloaded once
\* anything is under its path
already_downloaded_any(kind, d) == has_content(kind, d)

\* the test of each download() for "already downloaded; skipping"
already_downloaded(kind, d) ==
    IF kind = "GHPackageAsset" THEN d.metadata /\ d.manifest
    ELSE has_content(kind, d)

\* path.mkdir(parents=True, exist_ok=True) of the target directory
mkdir(d) == IF d.dir = "absent" THEN [d EXCEPT !.dir = "empty"] ELSE d

\* mutant of unlink: the file is left as it is
unlink_keep(d, f) == d

\* filepath.unlink(missing_ok=True)
unlink(d, f) == [d EXCEPT ![f] = "absent"]

\* mutant of rmtree: the directory is left as it is
rmtree_keep(d) == d

\* shutil.rmtree(target_dir) of an existing directory
rmtree(d) == [d EXCEPT !.dir = "absent"]

\* mutant of asset_except: no download() catches anything
asset_except_reraise(kind, status) == "raised"

\* mutant of asset_except: every log download takes 404 and 410 as empty
asset_except_all_logs(kind, status) ==
    IF kind \in LogKinds /\ status \in {"404", "410"} THEN "empty" ELSE "raised"

\* what download() makes of an exception of client.download_zipfile /
\* client.download: GHABuildLog returns [] on HTTP 404 and 410
asset_except(kind, status) ==
    IF kind = "GHABuildLog" /\ status \in {"404", "410"} THEN "empty" ELSE "raised"

\* download() ends: it returns a list ("empty", "files") or raises
returns(result, status, d, c) ==
    /\ disk' = d
    /\ ret' = [result |-> result, status |-> status, net |-> c.net, had |-> c.had,
               prior |-> c.prior, same |-> (d = c.disk0),
               ok |-> ret.ok \/ (/\ result # "raised"
                                 /\ d # c.disk0
                                 /\ (has_content(asset.kind, d) \/ d.metadata)),
               bad |-> c.bad, exc |-> c.exc]
    /\ call' = IdleCall
    /\ pc' = IF result = "raised" THEN "aborted" ELSE "traverse"

\* an exception reaches download()
raises(status, d, c) == returns(asset_except(asset.kind, status), status, d, c)

InitDownload ==
    /\ pc = "expand"
    /\ asset \in Assets
    /\ cfg = [ci |-> IF asset.kind = "TravisJobLog" THEN <<"travis">> ELSE <<"github">>,
              types |-> EventTypes, since |-> 30, until |-> NoTime,
              logs |-> TRUE, releases |-> asset.kind = "GHReleaseAsset"]
    /\ stateFile = [n \in ProviderNames |-> NoTime]
    /\ file0 = stateFile
    /\ since_stamps = stateFile
    /\ cur = 1
    /\ since = cfg.since
    /\ fetched = <<<<AssetTime, TRUE>>>>
    /\ regs = <<<<AssetTime, TRUE>>>>
    /\ floor = NoTime
    /\ feeds = <<>>
    /\ feedno = 2
    /\ last = NoTime
    /\ trace = <<>>
    /\ world = <<>>
    /\ listed = FALSE
    /\ snap = <<>>
    /\ yielded = {}
    /\ commit = None
    /\ common_status = None
    /\ NoStateFile
    /\ NoExt
    /\ disk = EmptyDisk
    /\ call = IdleCall
    /\ ret = [result |-> "none", status |-> "none", net |-> FALSE, had |-> FALSE,
              prior |-> FALSE, same |-> TRUE, ok |-> FALSE,
              bad |-> 0, exc |-> None]

\* obj.expand_path(...): path_fields() looks the status up
expand_path ==
    /\ pc = "expand"
    /\ common_status' = IF asset.kind \in BuildKinds
                        THEN path_fields_common_status(asset.status)
                        ELSE None
    /\ pc' = IF common_status' = "KeyError" THEN "aborted" ELSE "download"
    /\ UNCHANGED <<since, fetched, regs, floor, cfg, stateFile, file0,
                   since_stamps, cur, feeds, feedno, last, trace, asset, commit,
                   disk, call, ret>>
    /\ UNCHANGED worldVars
    /\ UNCHANGED stVars
    /\ UNCHANGED extVars

\* download() of a log, an artifact or a release asset is called
download_call ==
    /\ pc = "download"
    /\ call.dpc = "idle"
    /\ asset.kind # "GHPackageAsset"
    /\ LET d1 == IF asset.kind \in ZipKinds THEN mkdir(disk) ELSE disk
           c == [IdleCall EXCEPT !.had = has_content(asset.kind, disk),
                                 !.prior = ret.ok, !.disk0 = disk]
       IN  IF already_downloaded(asset.kind, d1)
           THEN returns("empty", "none", d1, c)
           ELSE /\ disk' = IF asset.kind \in ZipKinds
                           THEN [d1 EXCEPT !.tmp = "partial"]
                           ELSE d1
                /\ call' = [c EXCEPT !.dpc = "get",
                                     !.f = IF asset.kind \in ZipKinds THEN "tmp"
                                           ELSE "file"]
                /\ ret' = [ret EXCEPT !.result = "none", !.status = "none"]
                /\ pc' = pc
    /\ UNCHANGED <<since, fetched, regs, floor, cfg, stateFile, file0,
                   since_stamps, cur, feeds, feedno, last, trace, asset, commit,
                   common_status>>
    /\ UNCHANGED stVars
    /\ UNCHANGED extVars
    /\ UNCHANGED worldVars

\* APIClient.download: self.get(path, stream=True) answers or raises
get_responds ==
    /\ pc = "download"
    /\ call.dpc = "get"
    /\ \E r \in {"200", "404", "410", "403", "ConnectionError"} :
          LET c == [call EXCEPT !.net = TRUE]
          IN  IF r = "200"
              THEN /\ disk' = [disk EXCEPT ![call.f] = "partial"]
                   /\ call' = [c EXCEPT !.dpc = "stream"]
                   /\ UNCHANGED <<pc, ret>>
              ELSE IF r = "ConnectionError" /\ call.i < MAX_RETRIES
              THEN /\ call' = [c EXCEPT !.i = @ + 1]
                   /\ UNCHANGED <<disk, pc, ret>>
              ELSE raises(r, unlink(disk, call.f), c)
    /\ UNCHANGED <<since, fetched, regs, floor, cfg, stateFile, file0,
                   since_stamps, cur, feeds, feedno, last, trace, asset, commit,
                   common_status>>
    /\ UNCHANGED stVars
    /\ UNCHANGED extVars
    /\ UNCHANGED worldVars

\* APIClient.download: the chunks are written, or the transfer breaks
stream_ends ==
    /\ pc = "download"
    /\ call.dpc = "stream"
    /\ \E r \in {"complete", "ChunkedEncodingError", "KeyboardInterrupt"} :
          IF r = "complete"
          THEN IF asset.kind \in ZipKinds
               THEN /\ disk' = [disk EXCEPT !.tmp = "full"]
                    /\ call' = [call EXCEPT !.dpc = "extract"]
                    /\ UNCHANGED <<pc, ret>>
               ELSE returns("files", "none", [disk EXCEPT !.file = "full"], call)
          ELSE IF r = "ChunkedEncodingError" /\ call.i < MAX_RETRIES
          THEN /\ call' = [call EXCEPT !.i = @ + 1, !.dpc = "get"]
               /\ UNCHANGED <<disk, pc, ret>>
          ELSE raises(r, unlink(disk, call.f), call)
    /\ UNCHANGED <<since, fetched, regs, floor, cfg, stateFile, file0,
                   since_stamps, cur, feeds, feedno, last, trace, asset, commit,
                   common_status>>
    /\ UNCHANGED stVars
    /\ UNCHANGED extVars
    /\ UNCHANGED worldVars

\* download_zipfile: the except clauses and the finally clause, for the
\* exception r raised by ZipFile(zippath) or extractall(target_dir)
zip_except(r) ==
    LET c == [call EXCEPT !.exc = r,
                          !.bad = IF r = "BadZipFile" THEN @ + 1 ELSE @]
    IN  IF disk.dir = "absent"
        THEN raises("FileNotFoundError", unlink(disk, "tmp"), c)
        ELSE IF r = "BadZipFile" /\ call.j < ZIPFILE_RETRIES
        THEN /\ disk' = unlink(rmtree(disk), "tmp")
             /\ call' = [c EXCEPT !.j = @ + 1, !.i = 0, !.dpc = "get",
                                  !.exc = None]
             /\ UNCHANGED <<pc, ret>>
        ELSE raises(r, unlink(rmtree(disk), "tmp"), c)

\* download_zipfile: ZipFile(zippath)
open_zip ==
    /\ pc = "download"
    /\ call.dpc = "extract"
    /\ \E r \in {"ok", "BadZipFile", "KeyboardInterrupt"} :
          IF r = "ok"
          THEN /\ call' = [call EXCEPT !.dpc = "extracting"]
               /\ UNCHANGED <<disk, pc, ret>>
          ELSE zip_except(r)
    /\ UNCHANGED <<since, fetched, regs, floor, cfg, stateFile, file0,
                   since_stamps, cur, feeds, feedno, last, trace, asset, commit,
                   common_status>>
    /\ UNCHANGED stVars
    /\ UNCHANGED extVars
    /\ UNCHANGED worldVars

\* download_zipfile: extractall writes a member into target_dir
extract_member ==
    /\ pc = "download"
    /\ call.dpc = "extracting"
    /\ disk.dir # "partial"
    /\ disk' = [disk EXCEPT !.dir = "partial"]
    /\ UNCHANGED <<pc, since, fetched, regs, floor, cfg, stateFile, file0,
                   since_stamps, cur, feeds, feedno, last, trace, asset, call, ret,
                   commit, common_status>>
    /\ UNCHANGED stVars
    /\ UNCHANGED extVars
    /\ UNCHANGED worldVars

\* download_zipfile: extractall returns or raises; download() lists the files
extractall_ends ==
    /\ pc = "download"
    /\ call.dpc = "extracting"
    /\ \E r \in {"done", "BadZipFile", "KeyboardInterrupt"}, txt \in BOOLEAN :
          IF r = "done"
          THEN LET d == unlink([disk EXCEPT !.dir = IF @ = "partial" THEN "content"
                                                    ELSE @], "tmp")
               IN  IF d.dir = "absent" /\ asset.kind = "GHAArtifact"
                   THEN returns("raised", "FileNotFoundError", d, call)
                   ELSE IF d.dir = "content" /\ (txt \/ asset.kind = "GHAArtifact")
                   THEN returns("files", "none", d, call)
                   ELSE returns("empty", "none", d, call)
          ELSE zip_except(r)
    /\ UNCHANGED <<since, fetched, regs, floor, cfg, stateFile, file0,
                   since_stamps, cur, feeds, feedno, last, trace, asset, commit,
                   common_status>>
    /\ UNCHANGED stVars
    /\ UNCHANGED extVars
    /\ UNCHANGED worldVars

\* GHPackageAsset.download is called: metadata.json is written, unless both
\* files are there
package_call ==
    /\ pc = "download"
    /\ call.dpc = "idle"
    /\ asset.kind = "GHPackageAsset"
    /\ LET d1 == mkdir(disk)
           c == [IdleCall EXCEPT !.had = has_content(asset.kind, disk),
                                 !.prior = ret.ok, !.disk0 = disk]
           d2 == [d1 EXCEPT !.metadata = TRUE, !.dir = "content"]
       IN  IF already_downloaded(asset.kind, d1)
           THEN returns("empty", "none", d1, c)
           ELSE IF asset.package_type = "container" /\ ~d1.manifest /\ asset.owner
           THEN /\ disk' = d2
                /\ call' = [c EXCEPT !.dpc = "manifest"]
                /\ ret' = [ret EXCEPT !.result = "none", !.status = "none"]
                /\ pc' = pc
           ELSE returns(IF disk.metadata THEN "empty" ELSE "files", "none", d2, c)
    /\ UNCHANGED <<since, fetched, regs, floor, cfg, stateFile, file0,
                   since_stamps, cur, feeds, feedno, last, trace, asset, commit,
                   common_status>>
    /\ UNCHANGED stVars
    /\ UNCHANGED extVars
    /\ UNCHANGED worldVars

\* _download_container_manifest: the registry answers
manifest_responds ==
    /\ pc = "download"
    /\ call.dpc = "manifest"
    /\ \E r \in {"manifest", "empty", "error"} :
          LET c == [call EXCEPT !.net = TRUE]
          IN  IF r = "manifest"
              THEN returns("files", "none", [disk EXCEPT !.manifest = TRUE], c)
              ELSE returns(IF call.disk0.metadata THEN "empty" ELSE "files",
                           "none", disk, c)
    /\ UNCHANGED <<since, fetched, regs, floor, cfg, stateFile, file0,
                   since_stamps, cur, feeds, feedno, last, trace, asset, commit,
                   common_status>>
    /\ UNCHANGED stVars
    /\ UNCHANGED extVars
    /\ UNCHANGED worldVars

\* a later fetch starts from cfg.since and the asset is yielded again
yield_again ==
    /\ pc \in {"written", "aborted"}
    /\ pc' = "expand"
    /\ stateFile' = file0
    /\ since_stamps' = file0
    /\ fetched' = <<<<AssetTime, TRUE>>>>
    /\ floor' = NoTime
    /\ common_status' = None
    /\ UNCHANGED <<since, regs, cfg, file0, cur, feeds, feedno, last, trace,
                   asset, disk, call, ret, commit>>
    /\ UNCHANGED worldVars
    /\ UNCHANGED stVars
    /\ UNCHANGED extVars

NextDownload ==
    \/ expand_path
    \/ download_call
    \/ get_responds
    \/ stream_ends
    \/ open_zip
    \/ extract_member
    \/ extractall_ends
    \/ package_call
    \/ manifest_responds
    \/ finish_provider
    \/ write_state
    \/ yield_again

SpecDownload == InitDownload /\ [][NextDownload]_vars

(***************************************************************************)
(* SpecState: a StateFile is made from the files of the working directory  *)
(* (or from an explicit path), then get_since and set_since are called.    *)
(***************************************************************************)
\* the fields of State
CiNames == {"github", "travis", "appveyor"}

\* timestamps found in a state file
StateTimes == {NoTime, 20, 35}

\* timestamps given to set_since
SinceTimes == {35, 40}

\* default_since of the StateFile
DefaultSince == 30

\* State(): every field None
State0 == [n \in CiNames |-> NoTime]

\* a file: absent, blank, or the JSON of a State
Files ==
    {NoFile}
    \cup [exists : {TRUE}, blank : {TRUE}, state : {State0}]
    \cup [exists : {TRUE}, blank : {FALSE}, state : [CiNames -> StateTimes]]

\* self.path.write_text(self.state.json())
written_file(state) == [exists |-> TRUE, blank |-> FALSE, state |-> state]

\* mutant of from_file: the old name is tried first
from_file_old_first(default_since, path, dir) ==
    LET migrating == path = None /\ dir[OLD_STATE_FILE].exists
        p == IF path # None THEN path
             ELSE IF dir[OLD_STATE_FILE].exists THEN OLD_STATE_FILE
             ELSE STATE_FILE
    IN  [default_since |-> default_since, path |-> p,
         state |-> IF ~dir[p].exists \/ dir[p].blank THEN State0 ELSE dir[p].state,
         migrating |-> migrating, modified |-> FALSE]

\* StateFile.from_file(default_since, path) with the files dir
from_file(default_since, path, dir) ==
    LET migrating == path = None /\ ~dir[STATE_FILE].exists
                     /\ dir[OLD_STATE_FILE].exists
        p == IF path # None THEN path
             ELSE IF dir[STATE_FILE].exists THEN STATE_FILE
             ELSE IF dir[OLD_STATE_FILE].exists THEN OLD_STATE_FILE
             ELSE STATE_FILE
    IN  [default_since |-> default_since, path |-> p,
         state |-> IF ~dir[p].exists \/ dir[p].blank THEN State0 ELSE dir[p].state,
         migrating |-> migrating, modified |-> FALSE]

\* the names CIConfigDict.items() can yield
CINames == {"github", "travis", "appveyor", "circleci"}

\* getattr(self.state, ciname) raises for a name that is no field of State
getattr_raises(state, ciname) ==
    IF ciname \in DOMAIN state THEN None ELSE "AttributeError"

\* mutant of get_since: the stored timestamp is returned as it is
get_since_stored(sf, dir, ciname) ==
    IF getattr_raises(sf.state, ciname) # None
    THEN [value |-> NoTime, raised |-> getattr_raises(sf.state, ciname),
          statefile |-> sf, cwd |-> dir]
    ELSE
    [value |-> IF sf.state[ciname] # NoTime THEN sf.state[ciname]
               ELSE sf.default_since,
     raised |-> None, statefile |-> sf, cwd |-> dir]

\* StateFile.get_since(ciname): the value returned, the object and the
\* files afterwards
get_since(sf, dir, ciname) ==
    IF getattr_raises(sf.state, ciname) # None
    THEN [value |-> NoTime, raised |-> getattr_raises(sf.state, ciname),
          statefile |-> sf, cwd |-> dir]
    ELSE
    [value |-> IF sf.state[ciname] # NoTime
               THEN IF sf.state[ciname] > sf.default_since
                    THEN sf.state[ciname] ELSE sf.default_since
               ELSE sf.default_since,
     raised |-> None, statefile |-> sf, cwd |-> dir]

\* mutant of set_since: only the named entry is written to the file
set_since_entry_only(sf, dir, ciname, since_) ==
    IF getattr_raises(sf.state, ciname) # None
    THEN [raised |-> getattr_raises(sf.state, ciname), statefile |-> sf, cwd |-> dir]
    ELSE IF sf.state[ciname] = since_
    THEN [raised |-> None, statefile |-> sf, cwd |-> dir]
    ELSE LET st == [sf.state EXCEPT ![ciname] = since_]
             one == [State0 EXCEPT ![ciname] = since_]
         IN  IF sf.migrating
             THEN [raised |-> None,
                   statefile |-> [sf EXCEPT !.state = st, !.path = STATE_FILE,
                                            !.migrating = FALSE, !.modified = TRUE],
                   cwd |-> [[dir EXCEPT ![STATE_FILE] = written_file(one)]
                                 EXCEPT ![sf.path] = NoFile]]
             ELSE [raised |-> None,
                   statefile |-> [sf EXCEPT !.state = st, !.modified = TRUE],
                   cwd |-> [dir EXCEPT ![sf.path] = written_file(one)]]

\* mutant of set_since: the equality test is missing
set_since_always(sf, dir, ciname, since_) ==
    IF getattr_raises(sf.state, ciname) # None
    THEN [raised |-> getattr_raises(sf.state, ciname), statefile |-> sf, cwd |-> dir]
    ELSE LET st == [sf.state EXCEPT ![ciname] = since_]
         IN  IF sf.migrating
             THEN [raised |-> None,
                   statefile |-> [sf EXCEPT !.state = st, !.path = STATE_FILE,
                                            !.migrating = FALSE, !.modified = TRUE],
                   cwd |-> [[dir EXCEPT ![STATE_FILE] = written_file(st)]
                                 EXCEPT ![sf.path] = NoFile]]
             ELSE [raised |-> None,
                   statefile |-> [sf EXCEPT !.state = st, !.modified = TRUE],
                   cwd |-> [dir EXCEPT ![sf.path] = written_file(st)]]

\* mutant of set_since: the old file is written in place when migrating
set_since_in_place(sf, dir, ciname, since_) ==
    IF getattr_raises(sf.state, ciname) # None
    THEN [raised |-> getattr_raises(sf.state, ciname), statefile |-> sf, cwd |-> dir]
    ELSE IF sf.state[ciname] = since_
    THEN [raised |-> None, statefile |-> sf, cwd |-> dir]
    ELSE LET st == [sf.state EXCEPT ![ciname] = since_]
         IN  [raised |-> None,
              statefile |-> [sf EXCEPT !.state = st, !.modified = TRUE],
              cwd |-> [dir EXCEPT ![sf.path] = written_file(st)]]

\* StateFile.set_since(ciname, since): the object and the files afterwards
set_since(sf, dir, ciname, since_) ==
    IF getattr_raises(sf.state, ciname) # None
    THEN [raised |-> getattr_raises(sf.state, ciname), statefile |-> sf, cwd |-> dir]
    ELSE IF sf.state[ciname] = since_
    THEN [raised |-> None, statefile |-> sf, cwd |-> dir]
    ELSE LET st == [sf.state EXCEPT ![ciname] = since_]
         IN  IF sf.migrating
             THEN [raised |-> None,
                   statefile |-> [sf EXCEPT !.state = st, !.path = STATE_FILE,
                                            !.migrating = FALSE, !.modified = TRUE],
                   cwd |-> [[dir EXCEPT ![STATE_FILE] = written_file(st)]
                                 EXCEPT ![sf.path] = NoFile]]
             ELSE [raised |-> None,
                   statefile |-> [sf EXCEPT !.state = st, !.modified = TRUE],
                   cwd |-> [dir EXCEPT ![sf.path] = written_file(st)]]

InitState ==
    /\ pc = "idle"
    /\ cfg = [ci |-> <<"github">>, types |-> EventTypes, since |-> DefaultSince,
              until |-> NoTime, logs |-> TRUE, releases |-> FALSE]
    /\ stateFile = [n \in ProviderNames |-> NoTime]
    /\ file0 = stateFile
    /\ since_stamps = stateFile
    /\ cur = 0
    /\ since = cfg.since
    /\ fetched = <<>>
    /\ regs = <<>>
    /\ floor = NoTime
    /\ feeds = <<>>
    /\ feedno = 0
    /\ last = NoTime
    /\ trace = <<>>
    /\ world = <<>>
    /\ listed = FALSE
    /\ snap = <<>>
    /\ yielded = {}
    /\ asset = [kind |-> None, package_type |-> None, owner |-> FALSE]
    /\ disk = [dir |-> "absent", file |-> "absent", tmp |-> "absent",
               metadata |-> FALSE, manifest |-> FALSE]
    /\ call = [dpc |-> "idle", f |-> None, i |-> 0, j |-> 0, bad |-> 0,
               exc |-> None, net |-> FALSE,
               had |-> FALSE, prior |-> FALSE, disk0 |-> disk]
    /\ ret = [result |-> "none", status |-> "none", net |-> FALSE, had |-> FALSE,
              prior |-> FALSE, same |-> TRUE, ok |-> FALSE,
              bad |-> 0, exc |-> None]
    /\ commit = None
    /\ common_status = None
    /\ statefile = [default_since |-> NoTime, path |-> None, state |-> State0,
                    migrating |-> FALSE, modified |-> FALSE]
    /\ cwd \in [{STATE_FILE, OLD_STATE_FILE} -> Files]
    /\ NoExt
    /\ got = [op |-> None, ciname |-> None, since |-> NoTime, path |-> None,
              value |-> NoTime, raised |-> None, migrated |-> FALSE,
              statefile |-> statefile, cwd |-> cwd]

\* StateFile.from_file is called
from_file_call ==
    /\ pc = "idle"
    /\ \E path \in {None, STATE_FILE, OLD_STATE_FILE} :
          /\ statefile' = from_file(cfg.since, path, cwd)
          /\ got' = [op |-> "from_file", ciname |-> None, since |-> NoTime,
                     path |-> path, value |-> NoTime, raised |-> None,
                     migrated |-> FALSE, statefile |-> statefile, cwd |-> cwd]
    /\ pc' = "loaded"
    /\ UNCHANGED <<since, fetched, regs, floor, cfg, stateFile, file0,
                   since_stamps, cur, feeds, feedno, last, trace, asset, disk,
                   call, ret, commit, common_status, cwd>>
    /\ UNCHANGED worldVars
    /\ UNCHANGED extVars

\* get_since is called
get_since_call ==
    /\ pc = "loaded"
    /\ \E ciname \in CINames :
          LET r == get_since(statefile, cwd, ciname)
          IN  /\ got' = [op |-> "get_since", ciname |-> ciname, since |-> NoTime,
                         path |-> None, value |-> r.value, raised |-> r.raised,
                         migrated |-> got.migrated,
                         statefile |-> statefile, cwd |-> cwd]
              /\ statefile' = r.statefile
              /\ cwd' = r.cwd
    /\ UNCHANGED <<pc, since, fetched, regs, floor, cfg, stateFile, file0,
                   since_stamps, cur, feeds, feedno, last, trace, asset, disk,
                   call, ret, commit, common_status>>
    /\ UNCHANGED worldVars
    /\ UNCHANGED extVars

\* set_since is called
set_since_call ==
    /\ pc = "loaded"
    /\ \E ciname \in CINames, since_ \in SinceTimes :
          LET r == set_since(statefile, cwd, ciname, since_)
          IN  /\ statefile' = r.statefile
              /\ cwd' = r.cwd
              /\ got' = [op |-> "set_since", ciname |-> ciname, since |-> since_,
                         path |-> None, value |-> NoTime, raised |-> r.raised,
                         migrated |-> got.migrated
                                      \/ (statefile.migrating
                                          /\ ~r.statefile.migrating),
                         statefile |-> statefile, cwd |-> cwd]
    /\ UNCHANGED <<pc, since, fetched, regs, floor, cfg, stateFile, file0,
                   since_stamps, cur, feeds, feedno, last, trace, asset, disk,
                   call, ret, commit, common_status>>
    /\ UNCHANGED worldVars
    /\ UNCHANGED extVars

NextState ==
    \/ from_file_call
    \/ get_since_call
    \/ set_since_call

SpecState == InitState /\ [][NextState]_vars

(***************************************************************************)
(* The state of a fetch that is not running, for the specifications that   *)
(* follow one object outside fetch.                                        *)
(***************************************************************************)
NoFetch ==
    /\ cfg = [ci |-> <<"github">>, types |-> EventTypes, since |-> DefaultSince,
              until |-> NoTime, logs |-> TRUE, releases |-> FALSE]
    /\ stateFile = [n \in ProviderNames |-> NoTime]
    /\ file0 = stateFile
    /\ since_stamps = stateFile
    /\ cur = 0
    /\ since = cfg.since
    /\ fetched = <<>>
    /\ regs = <<>>
    /\ floor = NoTime
    /\ feeds = <<>>
    /\ feedno = 0
    /\ last = NoTime
    /\ trace = <<>>
    /\ world = <<>>
    /\ listed = FALSE
    /\ snap = <<>>
    /\ yielded = {}
    /\ asset = [kind |-> None, package_type |-> None, owner |-> FALSE]
    /\ disk = [dir |-> "absent", file |-> "absent", tmp |-> "absent",
               metadata |-> FALSE, manifest |-> FALSE]
    /\ call = [dpc |-> "idle", f |-> None, i |-> 0, j |-> 0, bad |-> 0,
               exc |-> None, net |-> FALSE,
               had |-> FALSE, prior |-> FALSE, disk0 |-> disk]
    /\ ret = [result |-> "none", status |-> "none", net |-> FALSE, had |-> FALSE,
              prior |-> FALSE, same |-> TRUE, ok |-> FALSE,
              bad |-> 0, exc |-> None]
    /\ commit = None
    /\ common_status = None
    /\ NoStateFile

noFetchVars == <<since, fetched, regs, floor, cfg, stateFile, file0, since_stamps,
                 cur, feeds, feedno, last, trace, world, listed, snap, yielded,
                 asset, disk, call, ret, commit, common_status, stVars>>

(***************************************************************************)
(* SpecEventId: get_event_id is called for the runs of one GitHubActions   *)
(* object, whose hash2pr keeps the pull request numbers found.             *)
(***************************************************************************)
\* get_event_id calls followed per head_sha
MaxCalls == 3

\* what /repos/{repo}/commits/{sha}/pulls answers: the number of the first
\* pull request, an empty list, or a failing request
PullsAnswers == {"7", "empty", "error"}

\* what /search/issues answers
SearchAnswers == {"8", "empty", "error"}

\* run.pull_requests: empty, or the number of its first entry
PullRequestEntries == {None, "9"}

\* mutant of hash2pr_has: 'UNK' does not count as found
hash2pr_has_number(h, sha) == h[sha] \notin {None, "UNK"}

\* run.head_sha in self.hash2pr
hash2pr_has(h, sha) == h[sha] # None

\* the lookup of get_event_id: the commit's pulls, else the issue search,
\* else 'UNK'
lookup_pr(pulls, search) ==
    IF pulls # "empty" THEN pulls
    ELSE IF search # "empty" THEN search
    ELSE "UNK"

\* a request of the lookup fails
lookup_raises(pulls, search) ==
    pulls = "error" \/ (pulls = "empty" /\ search = "error")

InitEventId ==
    /\ pc = "event_id"
    /\ NoFetch
    /\ not_started = {}
    /\ NoAux
    /\ NoLookups
    /\ NoPackages
    /\ NoMatch

\* GitHubActions.get_event_id(run, event_type)
get_event_id_call ==
    /\ pc = "event_id"
    /\ \E sha \in Shas, event_type \in EventTypes, prs \in PullRequestEntries,
          pulls \in PullsAnswers, search \in SearchAnswers :
          /\ calls[sha] < MaxCalls
          /\ IF event_type \in {"cron", "manual"}
             THEN /\ event_id' = "created_at"
                  /\ UNCHANGED <<pc, hash2pr, lookups, event_ids, calls>>
             ELSE IF event_type = "push"
             THEN /\ event_id' = "head_branch"
                  /\ UNCHANGED <<pc, hash2pr, lookups, event_ids, calls>>
             ELSE IF prs # None
             THEN /\ event_id' = prs
                  /\ UNCHANGED <<pc, hash2pr, lookups, event_ids, calls>>
             ELSE IF hash2pr_has(hash2pr, sha)
             THEN /\ event_id' = hash2pr[sha]
                  /\ event_ids' = [event_ids EXCEPT ![sha] = @ \cup {hash2pr[sha]}]
                  /\ calls' = [calls EXCEPT ![sha] = @ + 1]
                  /\ UNCHANGED <<pc, hash2pr, lookups>>
             ELSE /\ lookups' = [lookups EXCEPT ![sha] = @ + 1]
                  /\ calls' = [calls EXCEPT ![sha] = @ + 1]
                  /\ IF lookup_raises(pulls, search)
                     THEN /\ pc' = "raised"
                          /\ event_id' = None
                          /\ UNCHANGED <<hash2pr, event_ids>>
                     ELSE /\ hash2pr' = [hash2pr EXCEPT
                                           ![sha] = lookup_pr(pulls, search)]
                          /\ event_id' = lookup_pr(pulls, search)
                          /\ event_ids' = [event_ids EXCEPT
                                             ![sha] = @ \cup {lookup_pr(pulls, search)}]
                          /\ UNCHANGED pc
    /\ UNCHANGED noFetchVars
    /\ UNCHANGED exceptGh

\* the next run of the program makes a new GitHubActions object
new_system ==
    /\ pc \in {"event_id", "raised"}
    /\ event_id # None \/ pc = "raised"
    /\ pc' = "event_id"
    /\ hash2pr' = [s \in Shas |-> None]
    /\ lookups' = [s \in Shas |-> 0]
    /\ event_ids' = [s \in Shas |-> {}]
    /\ calls' = [s \in Shas |-> 0]
    /\ event_id' = None
    /\ UNCHANGED noFetchVars
    /\ UNCHANGED exceptGh

NextEventId ==
    \/ get_event_id_call
    \/ new_system

SpecEventId == InitEventId /\ [][NextEventId]_vars

(***************************************************************************)
(* SpecPackages: the github section of the configuration is validated,    *)
(* a GitHubActions object is made from it and get_package_assets is        *)
(* traversed.                                                              *)
(***************************************************************************)
\* package versions GitHub lists
MaxVersions == 2

\* Package.name
PackageNames == {"p", "q"}

\* PackageVersion.updated_at
VersionTimes == {25, 35}

\* the listings of get_packages / get_package_versions
VersionLists ==
    UNION {[1..n -> [name : PackageNames, ts : VersionTimes]] : n \in 0..MaxVersions}

\* the fields GitHubConfig declares
GitHubConfigFields == {"paths", "workflows"}

\* the keys of the github section of the data
config_keys(pk) ==
    {"paths"} \cup (IF pk.configured THEN {"packages"} ELSE {})

\* NoExtraModel, extra="forbid": a key that is no field is an error
model_validate_raises(pk) == ~(config_keys(pk) \subseteq GitHubConfigFields)

\* the loop body of get_package_assets: whether the version is registered
\* and yielded
package_step(v, since_, until_) == ~(v.ts <= since_ \/ too_new(until_, v.ts))

InitPackages ==
    /\ pc = "config"
    /\ NoFetch
    /\ not_started = {}
    /\ NoAux
    /\ NoLookups
    /\ NoMatch
    /\ packages \in [configured : {FALSE}, include : {{}}]
                    \cup [configured : {TRUE}, include : SUBSET PackageNames]
    /\ versions \in VersionLists
    /\ vnext = 1
    /\ pkg_assets = {}

\* GitHubConfig.model_validate(data), then get_system
model_validate ==
    /\ pc = "config"
    /\ pc' = IF model_validate_raises(packages) THEN "ValidationError"
             ELSE "packages"
    /\ UNCHANGED noFetchVars
    /\ UNCHANGED extVars

\* get_package_assets: the next version of the listing
package_version ==
    /\ pc = "packages"
    /\ vnext <= Len(versions)
    /\ LET v == versions[vnext]
       IN  IF package_step(v, since, cfg.until)
           THEN /\ fetched' = register_build(fetched, v.ts, TRUE)
                /\ regs' = Append(regs, <<v.ts, TRUE>>)
                /\ pkg_assets' = pkg_assets \cup {v}
           ELSE UNCHANGED <<fetched, regs, pkg_assets>>
    /\ vnext' = vnext + 1
    /\ UNCHANGED <<pc, since, floor, cfg, stateFile, file0, since_stamps,
                   cur, feeds, feedno, last, trace, asset, disk, call, ret,
                   commit, common_status, packages, versions>>
    /\ UNCHANGED <<worldVars, stVars, exceptPkg>>

\* get_package_assets is exhausted
packages_exhausted ==
    /\ pc = "packages"
    /\ vnext > Len(versions)
    /\ pc' = "done"
    /\ UNCHANGED noFetchVars
    /\ UNCHANGED extVars

NextPackages ==
    \/ model_validate
    \/ package_version
    \/ packages_exhausted

SpecPackages == InitPackages /\ [][NextPackages]_vars

(***************************************************************************)
(* SpecMatch: a WorkflowSpec is made from configuration data and its match *)
(* is called.  Names are sequences of characters.                          *)
(***************************************************************************)
\* characters of a name
MaxNameLen == 2

Chars == {"a", "b"}

\* workflow names
Names == UNION {[1..n -> Chars] : n \in 1..MaxNameLen}

\* the strings given as include and exclude patterns
Patterns == {<<"a">>, <<"b">>, <<"a", "b">>}

\* the directory part of a workflow path
Dirs == {<<>>, <<<<"b">>>>}

\* workflow paths: the components, the last one being the file name
WfPaths == {d \o <<n>> : d \in Dirs, n \in Names}

\* mutant of literalize_str: the escaped string is not anchored
literalize_str_unanchored(v, regex) == [anchored |-> FALSE, text |-> v]

\* literalize_str, then re.compile: with regex false the string becomes
\* \A + re.escape(v) + \Z; otherwise it is compiled as it is (here a
\* pattern of literal characters)
literalize_str(v, regex) ==
    IF ~regex THEN [anchored |-> TRUE, text |-> v]
    ELSE [anchored |-> FALSE, text |-> v]

\* the default of include: re.compile(".*")
DotStar == [anchored |-> FALSE, text |-> <<>>]

\* r.search(name)
search(r, name) ==
    IF r.anchored THEN name = r.text
    ELSE \E i \in 0..(Len(name) - Len(r.text)) :
            SubSeq(name, i + 1, i + Len(r.text)) = r.text

\* WorkflowSpec(**data): the compiled include and exclude patterns
WorkflowSpec(data) ==
    [regex |-> data.regex,
     include |-> IF data.given
                 THEN {literalize_str(v, data.regex) : v \in data.include}
                 ELSE {DotStar},
     exclude |-> {literalize_str(v, data.regex) : v \in data.exclude}]

\* mutant of match: a name that an include pattern matches is accepted
\* whatever exclude says
match_include_only(spec, wf_name) ==
    \E r \in spec.include : search(r, wf_name)

\* WorkflowSpec.match(wf_name)
match(spec, wf_name) ==
    /\ \E r \in spec.include : search(r, wf_name)
    /\ ~\E r \in spec.exclude : search(r, wf_name)

\* mutant of PurePosixPath(wf_path).name: the first component
path_name_first(wf_path) == wf_path[1]

\* PurePosixPath(wf_path).name
path_name(wf_path) == wf_path[Len(wf_path)]

\* GHWorkflowSpec.match(wf_path)
gh_match(spec, wf_path) == match(spec, path_name(wf_path))

InitMatch ==
    /\ pc = "match"
    /\ NoFetch
    /\ not_started = {}
    /\ NoAux
    /\ NoLookups
    /\ NoPackages
    /\ wfspec \in [regex : BOOLEAN, given : {TRUE}, include : SUBSET Patterns,
                   exclude : SUBSET Patterns]
                  \cup [regex : BOOLEAN, given : {FALSE}, include : {{}},
                        exclude : SUBSET Patterns]
    /\ matched = [kind |-> None, arg |-> <<>>, result |-> FALSE]

\* WorkflowSpec.match is called
match_call ==
    /\ pc = "match"
    /\ \E wf_name \in Names :
          matched' = [kind |-> "WorkflowSpec", arg |-> wf_name,
                      result |-> match(WorkflowSpec(wfspec), wf_name)]
    /\ UNCHANGED <<pc, wfspec>>
    /\ UNCHANGED noFetchVars
    /\ UNCHANGED exceptMatch

\* GHWorkflowSpec.match is called
gh_match_call ==
    /\ pc = "match"
    /\ \E wf_path \in WfPaths :
          matched' = [kind |-> "GHWorkflowSpec", arg |-> wf_path,
                      result |-> gh_match(WorkflowSpec(wfspec), wf_path)]
    /\ UNCHANGED <<pc, wfspec>>
    /\ UNCHANGED noFetchVars
    /\ UNCHANGED exceptMatch

NextMatch ==
    \/ match_call
    \/ gh_match_call

SpecMatch == InitMatch /\ [][NextMatch]_vars

(***************************************************************************)
(* Reference definitions used to state the claims about the tracker.  They *)
(* are computed from the history `regs`, never from the heap.              *)
(***************************************************************************)
Max(S) == CHOOSE x \in S : \A y \in S : y <= x

Min(S) == CHOOSE x \in S : \A y \in S : x <= y

\* sort key: the timestamp alone, or the timestamp with unprocessed first
Key(item, tie) ==
    IF tie THEN 2 * item[1] + (IF item[2] THEN 1 ELSE 0) ELSE item[1]

RECURSIVE InsertSorted(_, _, _)
\* stable insertion: item goes after every entry whose key is not larger
InsertSorted(sorted, item, tie) ==
    IF sorted = <<>> THEN <<item>>
    ELSE IF Key(Head(sorted), tie) <= Key(item, tie)
         THEN <<Head(sorted)>> \o InsertSorted(Tail(sorted), item, tie)
         ELSE <<item>> \o sorted

RECURSIVE SortRegs(_, _)
\* the registrations in ascending order (stable in the call order)
SortRegs(s, tie) ==
    IF s = <<>> THEN <<>>
    ELSE InsertSorted(SortRegs(SubSeq(s, 1, Len(s) - 1), tie), s[Len(s)], tie)

\* length of the longest prefix of s whose entries are all processed
ProcessedPrefix(s) ==
    Max({n \in 0..Len(s) : \A i \in 1..n : s[i][2]})

\* the reference floor of a sorted list of registrations
RefFloor(since_, sorted) ==
    IF ProcessedPrefix(sorted) = 0 THEN since_
    ELSE sorted[ProcessedPrefix(sorted)][1]

UnprocessedTs(s) == {s[i][1] : i \in {j \in 1..Len(s) : ~s[j][2]}}

\* processed timestamps below the earliest unprocessed one (all of them if
\* nothing is unprocessed)
ProcessedBelow(s) ==
    {s[i][1] : i \in {j \in 1..Len(s) :
        /\ s[j][2]
        /\ \A u \in UnprocessedTs(s) : s[j][1] < u}}

RECURSIVE PushAll(_, _)
\* register_build called for every entry of s in order, on heap h
PushAll(h, s) ==
    IF s = <<>> THEN h
    ELSE PushAll(register_build(h, Head(s)[1], Head(s)[2]), Tail(s))

Reorder(s, p) == [i \in 1..Len(s) |-> s[p[i]]]

TrackerDone == pc = "tracker_done"

(***************************************************************************)
(* Claims about register_build / new_since (SpecTracker)                   *)
(***************************************************************************)

C4_Original ==
    TrackerDone => floor = RefFloor(since, SortRegs(regs, FALSE))

\* C4 amended: new_since() equals the reference computed from the
\* registrations sorted ascending by timestamp with, on equal timestamps, the
\* unprocessed entry before the processed one: since if there are none or the
\* earliest is unprocessed, otherwise the timestamp of the last entry of the
\* longest all-processed prefix.  The four scenarios of the specification are
\* instances.
C4_ReferenceFloor ==
    TrackerDone =>
        /\ floor = RefFloor(since, SortRegs(regs, TRUE))
        /\ regs = <<>> => floor = since
        /\ (since = 0 /\ regs = << <<10, TRUE>>, <<20, FALSE>>, <<30, TRUE>> >>)
              => floor = 10
        /\ (since = 0 /\ regs = << <<10, TRUE>>, <<20, TRUE>>, <<30, TRUE>> >>)
              => floor = 30
        /\ (since = 5 /\ regs = <<>>) => floor = 5
        /\ (since = 0 /\ regs = << <<5, FALSE>> >>) => floor = 0

\* scenario A has run: <<10,T>>, <<20,F>>, <<30,T>> with since = 0 gave 10
C4_Witness ==
    /\ TrackerDone
    /\ since = 0
    /\ regs = << <<10, TRUE>>, <<20, FALSE>>, <<30, TRUE>> >>
    /\ floor = 10

\* C5 (P2, order independence): the floor returned after registering the
\* entries in the order they came equals the floor of a fresh tracker on
\* which the same entries are registered in any other order, ties included.
C5_OrderIndependence ==
    TrackerDone =>
        \A p \in Permutations(1..Len(regs)) :
            new_since(since, PushAll(<<>>, Reorder(regs, p))).ts = floor

\* three entries, two of them sharing a timestamp with different flags,
\* registered processed-first
C5_Witness ==
    /\ TrackerDone
    /\ Len(regs) = 3
    /\ \E i, j \in 1..3 :
          /\ i < j
          /\ regs[i][1] = regs[j][1]
          /\ regs[i][2] /\ ~regs[j][2]
    /\ floor # since

\* C10 as stated: after new_since() returns, fetched is empty.
C10_Original ==
    TrackerDone => fetched = <<>>

\* what new_since leaves: the sorted registrations after its break
LeftAfterBreak(s) ==
    IF ProcessedPrefix(s) = Len(s) THEN <<>>
    ELSE SubSeq(s, ProcessedPrefix(s) + 2, Len(s))

\* C10 amended: new_since() is the only consumer of fetched; it removes the
\* registrations up to and including the earliest unprocessed one and leaves
\* the ones after it, so fetched is empty afterwards exactly when no
\* registration sorts after the earliest unprocessed one (in particular when
\* all were processed).
C10_ConsumesPrefix ==
    /\ pc = "tracker" => SortRegs(fetched, TRUE) = SortRegs(regs, TRUE)
    /\ TrackerDone =>
          SortRegs(fetched, TRUE) = LeftAfterBreak(SortRegs(regs, TRUE))

\* new_since stopped at an unprocessed entry and left a later one behind
C10_Witness ==
    /\ TrackerDone
    /\ UnprocessedTs(regs) # {}
    /\ fetched # <<>>
    /\ Len(fetched) < Len(regs)

(***************************************************************************)
(* Claims about one traversal and about fetch (Spec)                       *)
(***************************************************************************)
BuildEntries == {i \in 1..Len(trace) : trace[i].kind # "releases"}

\* later than the floor and not later than a configured until
InWindow(ts) == ts > since /\ ~too_new(cfg.until, ts)

Traversed == pc \in {"provider_done", "written"}

RECURSIVE ExpectedRegsOf(_)
\* one registration per event the traversal had to register, whatever its
\* trigger kind: (ts, completed) for a build in the window, (ts, true) for a
\* published release in the window
ExpectedRegsOf(t) ==
    IF t = <<>> THEN <<>>
    ELSE LET e == t[Len(t)]
             rest == ExpectedRegsOf(SubSeq(t, 1, Len(t) - 1))
         IN  IF e.raised \/ ~InWindow(e.ev.ts) THEN rest
             ELSE IF e.kind = "releases"
                  THEN (IF e.ev.done THEN Append(rest, <<e.ev.ts, TRUE>>) ELSE rest)
                  ELSE Append(rest, <<e.ev.ts, e.ev.done>>)

IsPrefix(s, t) == Len(s) <= Len(t) /\ SubSeq(t, 1, Len(s)) = s

\* C1: after a provider's traversal is consumed, new_since() is strictly
\* earlier than the timestamp of every event the traversal registered as not
\* processed, also when later events were registered as processed.
C1_FloorBelowIncomplete ==
    Traversed =>
        \A i \in 1..Len(trace) :
            (trace[i].reg = "false" \/ (i \in BuildEntries /\ InWindow(trace[i].ev.ts)
                                        /\ ~trace[i].ev.done))
                => floor < trace[i].ev.ts

\* Appveyor: a finished build newer than an unfinished one, and a finished
\* one older than it, which is where the floor stops
C1_Witness ==
    /\ pc = "provider_done"
    /\ name_ = "appveyor"
    /\ \E i, j, k \in 1..Len(trace) :
          /\ trace[i].reg = "true" /\ trace[j].reg = "false" /\ trace[k].reg = "true"
          /\ trace[i].ev.ts > trace[j].ev.ts
          /\ trace[k].ev.ts < trace[j].ev.ts
          /\ floor = trace[k].ev.ts

\* C6 (P5, strict floor boundary): a build feed is read up to the first event
\* whose timestamp is <= since; that event is neither registered nor yields
\* assets, and nothing after it in the feed is read.  With timestamps
\* 50, 40, 30 and since = 35 only the events at 50 and 40 are considered.
C6_StopAtFloor ==
    /\ \A i \in BuildEntries :
          /\ trace[i].ev.ts <= since =>
                /\ trace[i].reg = "none" /\ trace[i].assets = 0
                /\ trace[i].stop \/ trace[i].raised
          /\ trace[i].ev.ts > since => ~trace[i].stop
          /\ (trace[i].stop \/ trace[i].raised) =>
                /\ \A j \in 1..Len(trace) : j > i => trace[j].feed > trace[i].feed
                /\ trace[i].stop => feedno > trace[i].feed
                /\ trace[i].raised => pc = "aborted"
    /\ \A j \in 1..Len(regs) : regs[j][1] > since
    /\ (/\ since = 35
        /\ Len(trace) >= 3
        /\ \A i \in 1..3 : i \in BuildEntries /\ trace[i].feed = 1 /\ ~trace[i].raised
        /\ trace[1].ev.ts = 50 /\ trace[2].ev.ts = 40 /\ trace[3].ev.ts = 30)
       => /\ ~trace[1].stop /\ ~trace[2].stop /\ trace[3].stop
          /\ \A j \in 1..Len(regs) : regs[j][1] \in {40, 50}
          /\ feedno > 1

\* scenario E has run: 50 and 40 were registered, the feed was left at 30
C6_Witness ==
    /\ since = 35
    /\ Len(trace) = 3
    /\ \A i \in 1..3 : i \in BuildEntries /\ trace[i].feed = 1
    /\ trace[1].ev.ts = 50 /\ trace[2].ev.ts = 40 /\ trace[3].ev.ts = 30
    /\ trace[3].stop
    /\ Len(regs) = 2
    /\ feedno = 2

C7_EachRegisteredOnce ==
    /\ \A i \in BuildEntries :
          (InWindow(trace[i].ev.ts) /\ ~trace[i].raised) =>
              /\ trace[i].reg = (IF trace[i].ev.done THEN "true" ELSE "false")
              /\ ~trace[i].ev.done => trace[i].assets = 0
    /\ \A i \in BuildEntries :
          (too_new(cfg.until, trace[i].ev.ts) \/ trace[i].raised) =>
              trace[i].reg = "none" /\ trace[i].assets = 0
    /\ pc \in {"traverse", "download", "aborted"} =>
          SortRegs(fetched, TRUE) = SortRegs(ExpectedRegsOf(trace), TRUE)

C7_OnlyGrows ==
    (pc \in {"traverse", "download"} /\ pc' \in {"traverse", "download", "aborted"}) =>
        /\ IsPrefix(regs, regs')
        /\ Len(fetched') >= Len(fetched)
        /\ Len(fetched') = Len(regs')

C8_DisallowedStillProcessed ==
    /\ \A i \in BuildEntries :
          (/\ trace[i].ev.done /\ InWindow(trace[i].ev.ts) /\ ~trace[i].raised
           /\ run_event(name_, trace[i].ev.event) \notin cfg.types)
          => trace[i].assets = 0 /\ trace[i].reg = "true"
    /\ \A i \in BuildEntries :
          (/\ trace[i].ev.done /\ InWindow(trace[i].ev.ts) /\ ~trace[i].raised
           /\ run_event(name_, trace[i].ev.event) \in cfg.types)
          => trace[i].assets = 1 /\ trace[i].reg = "true"
    /\ Traversed =>
          floor = RefFloor(since, SortRegs(ExpectedRegsOf(trace), TRUE))

\* the floor was moved to the timestamp of a terminal event whose kind is not
\* wanted and which yielded nothing
C8_Witness ==
    /\ pc = "provider_done"
    /\ \E i \in BuildEntries :
          /\ trace[i].ev.done
          /\ run_event(name_, trace[i].ev.event) \notin cfg.types
          /\ trace[i].assets = 0
          /\ floor = trace[i].ev.ts
          /\ floor > since
    /\ \E i \in BuildEntries : trace[i].assets = 1

\* C9: when a feed or a download raises, fetch has written nothing to the
\* state file: no provider's persisted watermark is advanced, whatever was
\* registered and whatever floors earlier providers of the run returned.
C9_NoWriteOnError ==
    pc # "written" => stateFile = file0

\* the second provider's traversal raised after registrations were made and
\* after the first provider's floor had advanced in since_stamps
C9_Witness ==
    /\ pc = "aborted"
    /\ cur = 2
    /\ regs # <<>>
    /\ since_stamps[cfg.ci[1]] # file0[cfg.ci[1]]
    /\ stateFile = file0


(***************************************************************************)
(* Repeated runs against the stored world (SpecRuns)                       *)
(***************************************************************************)
\* run i of the world is completed, newer than the first run's floor, and of
\* an allowed kind
Eligible(i) ==
    /\ i <= Len(world)
    /\ world[i].done
    /\ world[i].ts > cfg.since
    /\ ~too_new(cfg.until, world[i].ts)
    /\ from_gh_event(world[i].event) \in cfg.types

\* C2: as fetch is run again and again, each run starting from the floor the
\* run before persisted, every workflow run that is newer than the first
\* floor, of an allowed kind and eventually completed is eventually yielded.
C2_EventuallyYielded ==
    \A i \in 1..MaxWorld : Eligible(i) ~> (i \in yielded)


(***************************************************************************)
(* Claims about download() (SpecDownload)                                  *)
(***************************************************************************)
\* a download() call has ended and none is in progress
Returned == call.dpc = "idle" /\ ret.result # "none"

\* C11 (P4, idempotent download) for build logs, artifacts and release
\* assets: a download() called when the target already has content makes no
\* request, changes nothing on disk and returns an empty list; so does every
\* call after a call that returned having written content.
C11_IdempotentDownload ==
    asset.kind \in ZipKinds \cup FileKinds =>
        /\ call.dpc # "idle" => ~call.had /\ ~call.prior
        /\ (Returned /\ (ret.had \/ ret.prior)) =>
              ret.result = "empty" /\ ~ret.net /\ ret.same

\* the logs of a run were extracted by one call, a later call found them and
\* returned the empty list
C11_Witness ==
    /\ asset.kind = "GHABuildLog"
    /\ Returned
    /\ ret.prior /\ ret.had
    /\ ret.result = "empty"
    /\ disk.dir = "content"

\* C12: GHPackageAsset.download is idempotent: once an earlier call has
\* returned having written content under path, a further call makes no
\* network request and returns an empty list.
C12_PackageIdempotent ==
    (asset.kind = "GHPackageAsset" /\ Returned /\ ret.prior) =>
        ret.result = "empty" /\ ~ret.net

\* C13: whenever APIClient.download or APIClient.download_zipfile raises,
\* the target file does not exist, the target directory holds nothing
\* extracted and the temporary zip file is deleted when the error leaves
\* them, so that the next download() does not find the asset downloaded.
C13_CleanOnRaise ==
    /\ call.dpc = "idle" => disk.tmp = "absent"
    /\ (asset.kind \in ZipKinds \cup FileKinds /\ call.dpc = "idle"
        /\ ret.status # "none") =>
          /\ disk.file = "absent"
          /\ disk.dir \in {"absent", "empty"}
          /\ ~already_downloaded(asset.kind, disk)
    /\ (asset.kind \in ZipKinds \cup FileKinds /\ call.dpc # "idle") =>
          ~has_content(asset.kind, call.disk0)

\* download_zipfile gave up on a corrupt archive that had been extracted in
\* part: the directory is gone, fetch has ended
C13_Witness ==
    /\ asset.kind = "GHAArtifact"
    /\ call.dpc = "idle"
    /\ ret.result = "raised"
    /\ ret.status = "BadZipFile"
    /\ disk.dir = "absent"
    /\ pc = "aborted"

\* C14 as stated: when the request for a build's logs answers 404 or 410,
\* download() returns an empty list without raising and the run continues.
C14_Original ==
    (asset.kind \in LogKinds /\ call.dpc = "idle" /\ ret.status \in {"404", "410"}) =>
        ret.result = "empty" /\ pc # "aborted"

\* C14 amended: when the request for the logs of a GitHub Actions run answers
\* 404 or 410, GHABuildLog.download returns an empty list without raising,
\* the run continues, and the event stays registered as processed, so that
\* the new floor advances to it; the log download of another provider
\* raises on these answers and the run ends with the state file untouched.
C14_GitHubLogsGone ==
    (asset.kind \in LogKinds /\ call.dpc = "idle" /\ ret.status \in {"404", "410"}) =>
        IF asset.kind = "GHABuildLog"
        THEN /\ ret.result = "empty"
             /\ pc \in {"traverse", "provider_done", "written", "expand", "download"}
             /\ pc = "traverse" => fetched = <<<<AssetTime, TRUE>>>>
             /\ pc \in {"provider_done", "written"} =>
                   floor = AssetTime /\ since_stamps["github"] = AssetTime
             /\ pc = "written" => stateFile["github"] = AssetTime
        ELSE /\ ret.result = "raised"
             /\ pc \in {"aborted", "expand", "download"}
             /\ pc = "aborted" => stateFile = file0

\* the logs had expired (410); fetch went on and wrote the event's timestamp
\* as the new floor
C14_Witness ==
    /\ asset.kind = "GHABuildLog"
    /\ call.dpc = "idle"
    /\ ret.status = "410"
    /\ ret.result = "empty"
    /\ pc = "written"
    /\ stateFile["github"] = AssetTime


(***************************************************************************)
(* Claims about the runs of a commit (SpecGitHub)                          *)
(***************************************************************************)
\* the entries of the trace for run i of the world
EntriesOf(i) == {k \in 1..Len(trace) : trace[k].ev.id = i}

\* runs i and j are pull-request runs of one commit in different workflows
SamePR(i, j) ==
    /\ world[i].sha = world[j].sha
    /\ world[i].event = "pull_request"
    /\ world[j].event = "pull_request"
    /\ world[i].wf # world[j].wf

\* C15: when a pull-request commit has runs in several workflows and one of
\* them is not completed, get_build_assets yields no assets for any of the
\* commit's runs and registers every one of them as not processed.
C15_IncompletePRSkipped ==
    (commit = None /\ Traversed) =>
        \A i, j \in 1..Len(world) :
            (SamePR(i, j) /\ ~world[j].done) =>
                /\ i \notin yielded
                /\ \A k \in EntriesOf(i) : trace[k].reg = "false" /\ trace[k].assets = 0

\* C16: get_build_assets_for_commit yields no assets for a commit while a
\* run of that commit is not completed; when every run of the commit is
\* completed it yields the logs of all of them (of the wanted event types).
C16_CommitAllOrNothing ==
    commit # None =>
        /\ yielded # {} => \A j \in 1..Len(world) : world[j].sha = commit => world[j].done
        /\ (/\ pc = "commit_done"
            /\ \A j \in 1..Len(world) : world[j].sha = commit => world[j].done)
           => \A j \in 1..Len(world) :
                 (world[j].sha = commit /\ from_gh_event(world[j].event) \in cfg.types)
                     => j \in yielded

\* C17: runs that are not pull-request runs are processed one by one, not
\* grouped by commit: a completed push run of an allowed type yields its
\* assets whatever the state of the other runs of its commit, and a push run
\* in progress is skipped, registered as not processed.
C17_PushNotGrouped ==
    commit = None =>
        /\ \A k \in 1..Len(trace) :
              trace[k].ev.event = "push" =>
                  IF trace[k].ev.done
                  THEN /\ trace[k].reg = "true"
                       /\ trace[k].assets = IF "push" \in cfg.types THEN 1 ELSE 0
                       /\ "push" \in cfg.types => trace[k].ev.id \in yielded
                  ELSE /\ trace[k].reg = "false"
                       /\ trace[k].assets = 0
                       /\ trace[k].ev.id \notin yielded
        /\ Traversed =>
              \A i \in 1..Len(world) : Cardinality(EntriesOf(i)) = 1

\* two push runs of one commit in two workflows: the completed one yielded
\* its logs, the one in progress was registered as not processed
C17_Witness ==
    /\ commit = None
    /\ Traversed
    /\ \E i, j \in 1..Len(world) :
          /\ world[i].sha = world[j].sha
          /\ world[i].wf # world[j].wf
          /\ world[i].event = "push" /\ world[j].event = "push"
          /\ world[i].done /\ ~world[j].done
          /\ i \in yielded /\ j \notin yielded
          /\ \E k \in EntriesOf(j) : trace[k].reg = "false"

\* C18: an event whose native event type is not in the provider's table of
\* trigger kinds makes the traversal raise; it is neither skipped nor given
\* a default trigger kind.
C18_UnknownEventRaises ==
    \A k \in 1..Len(trace) :
        from_gh_event(trace[k].ev.event) = None => trace[k].raised


(***************************************************************************)
(* Claims about the status table (SpecDownload)                            *)
(***************************************************************************)
\* C19 as stated: a native status that is missing from COMMON_STATUS_MAP
\* fails before any network activity, never after events were fetched and
\* registered, and is never categorized as success.
C19_Original ==
    common_status = "KeyError" => regs = <<>> /\ fetched = <<>>

\* C19 amended: a native status that is missing from COMMON_STATUS_MAP makes
\* path_fields() raise KeyError when the path of an asset of that build is
\* expanded, in the middle of the traversal, after the event was fetched and
\* registered: nothing of the asset is downloaded and fetch ends without
\* writing the state file; such a status is never categorized as success.
C19_UnmappedStatusRaises ==
    /\ (asset.kind \in BuildKinds /\ asset.status \notin MappedStatuses
        /\ pc # "expand") =>
          /\ pc = "aborted"
          /\ common_status = "KeyError"
          /\ regs = <<<<AssetTime, TRUE>>>>
          /\ ret.result = "none" /\ call.dpc = "idle" /\ disk = EmptyDisk
          /\ stateFile = file0
    /\ common_status = "success" =>
          asset.status \in {"success", "passed", "no_tests", "fixed"}
    /\ (asset.kind \in BuildKinds /\ asset.status \in MappedStatuses
        /\ pc # "expand") =>
          common_status \in {"success", "failed", "errored", "incomplete"}

\* the path of an asset whose build has a status that is not in the table
\* was expanded: fetch has ended, the event had been registered
C19_Witness ==
    /\ pc = "aborted"
    /\ common_status = "KeyError"
    /\ asset.status = "waiting"
    /\ regs # <<>>
    /\ stateFile = file0


(***************************************************************************)
(* Claims about the state file object (SpecState)                          *)
(***************************************************************************)
\* C20: get_since(provider) returns default_since when the provider's entry
\* is missing or null, and otherwise the later of the stored timestamp and
\* default_since; it changes neither the state, nor the flags migrating and
\* modified, nor any file.
C20_GetSince ==
    got.op = "get_since" /\ got.ciname \in CiNames =>
        /\ got.value = IF statefile.state[got.ciname] = NoTime
                       THEN statefile.default_since
                       ELSE IF statefile.state[got.ciname] > statefile.default_since
                       THEN statefile.state[got.ciname]
                       ELSE statefile.default_since
        /\ got.statefile = statefile
        /\ got.cwd = cwd

\* a stored timestamp older than default_since: get_since gave default_since
\* and the file is as it was
C20_Witness ==
    /\ got.op = "get_since"
    /\ got.ciname = "travis"
    /\ statefile.state["travis"] = 20
    /\ statefile.state["github"] = 35
    /\ got.value = DefaultSince
    /\ ~statefile.modified
    /\ cwd[STATE_FILE].exists


\* the last call was set_since for a field of State with a timestamp that
\* differs from the stored one
SetSinceChanged ==
    /\ got.op = "set_since"
    /\ got.ciname \in CiNames
    /\ got.statefile.state[got.ciname] # got.since

\* C21: after set_since(provider, t) with t different from the stored value,
\* the file at path holds the whole in-memory state, in which the named
\* provider is t and every other entry, null ones included, is as before,
\* and modified is true.
C21_WholeRecordWritten ==
    SetSinceChanged =>
        /\ statefile.state = [got.statefile.state EXCEPT ![got.ciname] = got.since]
        /\ cwd[statefile.path] = written_file(statefile.state)
        /\ statefile.modified

\* set_since changed appveyor while github was stored and travis was null
C21_Witness ==
    /\ SetSinceChanged
    /\ got.ciname = "appveyor"
    /\ got.statefile.state["github"] = 20
    /\ got.statefile.state["travis"] = NoTime
    /\ cwd[statefile.path].state["github"] = 20
    /\ cwd[statefile.path].state["appveyor"] = got.since

\* C22: set_since(provider, t) with t equal to the stored timestamp changes
\* nothing: no file is written, created or renamed, and path, migrating and
\* modified keep their values.
C22_EqualIsNoOp ==
    /\ got.op = "set_since"
    /\ got.ciname \in CiNames
    /\ got.statefile.state[got.ciname] = got.since
    => /\ statefile = got.statefile
       /\ cwd = got.cwd

\* set_since with the stored timestamp while the migration is pending
C22_Witness ==
    /\ got.op = "set_since"
    /\ got.ciname \in CiNames
    /\ got.statefile.state[got.ciname] = got.since
    /\ statefile.migrating
    /\ ~statefile.modified
    /\ statefile.path = OLD_STATE_FILE
    /\ cwd[OLD_STATE_FILE].exists
    /\ ~cwd[STATE_FILE].exists

\* C23: once a StateFile loaded in migrating mode has had a set_since that
\* changed a value, the new file holds the full state, the old file is gone,
\* path is the new file, migrating is false and modified is true, and this
\* stays so after every later set_since.
C23_Migration ==
    /\ got.migrated =>
         /\ statefile.path = STATE_FILE
         /\ ~statefile.migrating
         /\ statefile.modified
         /\ cwd[STATE_FILE] = written_file(statefile.state)
         /\ ~cwd[OLD_STATE_FILE].exists
    /\ SetSinceChanged /\ got.statefile.migrating => got.migrated

\* a set_since that changed a value after the migration had been done
C23_Witness ==
    /\ SetSinceChanged
    /\ got.migrated
    /\ ~got.statefile.migrating
    /\ got.cwd[STATE_FILE].exists
    /\ cwd[STATE_FILE] # got.cwd[STATE_FILE]

\* C24: from_file with no path takes .tinuous.state.json if it exists, else
\* .dlstate.json if it exists (migrating only then), else .tinuous.state.json;
\* with a path it takes that path and does not migrate.  A missing or blank
\* file gives null for every provider, a partly filled one null for the
\* absent providers, and no file is created, changed or removed.
C24_FromFile ==
    got.op = "from_file" =>
        LET d == got.cwd
            p == IF got.path # None THEN got.path
                 ELSE IF d[STATE_FILE].exists THEN STATE_FILE
                 ELSE IF d[OLD_STATE_FILE].exists THEN OLD_STATE_FILE
                 ELSE STATE_FILE
        IN  /\ statefile.path = p
            /\ statefile.migrating =
                 (got.path = None /\ p = OLD_STATE_FILE)
            /\ \A n \in CiNames :
                 statefile.state[n] =
                    IF d[p].exists /\ ~d[p].blank THEN d[p].state[n] ELSE NoTime
            /\ ~statefile.modified
            /\ cwd = d

\* both files exist, no path is given: the new name is taken, a partly
\* filled file is read
C24_Witness ==
    /\ got.op = "from_file"
    /\ got.path = None
    /\ cwd[STATE_FILE].exists
    /\ cwd[OLD_STATE_FILE].exists
    /\ cwd[OLD_STATE_FILE] # cwd[STATE_FILE]
    /\ statefile.path = STATE_FILE
    /\ statefile.state["github"] = 35
    /\ statefile.state["travis"] = NoTime

\* C25: for every provider name CIConfigDict.items() can yield, get_since
\* returns a timestamp and set_since stores the timestamp, without raising.
C25_EveryProviderHasRecord ==
    got.op \in {"get_since", "set_since"} /\ got.ciname \in CINames =>
        /\ got.raised = None
        /\ got.op = "set_since" => statefile.state[got.ciname] = got.since


(***************************************************************************)
(* Claims about get_event_id (SpecEventId)                                 *)
(***************************************************************************)
\* C26: over the get_event_id calls of one run for pull-request runs that
\* carry no pull_requests entry, the auxiliary lookup is made at most once
\* per head SHA, also when it gave 'UNK', and every call for the same SHA
\* returns the same id.
C26_LookupCached ==
    \A s \in Shas :
        /\ lookups[s] <= 1
        /\ Cardinality(event_ids[s]) <= 1

\* several calls for each SHA after one lookup each, one of which gave 'UNK'
C26_Witness ==
    /\ calls["a"] = MaxCalls
    /\ lookups["a"] = 1
    /\ event_ids["a"] = {"UNK"}
    /\ calls["b"] >= 2
    /\ lookups["b"] = 1
    /\ event_ids["b"] = {"8"}


(***************************************************************************)
(* Claims about package assets (SpecPackages)                              *)
(***************************************************************************)
\* C27: a package-name allow-list can be configured for GitHub, and
\* get_package_assets registers and yields versions only of the packages
\* whose name matches it; with none configured every package is included.
C27_PackagesAllowList ==
    /\ packages.configured => pc # "ValidationError"
    /\ \A v \in pkg_assets :
          packages.configured => v.name \in packages.include


(***************************************************************************)
(* Claims about WorkflowSpec.match (SpecMatch)                             *)
(***************************************************************************)
\* the string t occurs in the name n
Occurs(t, n) ==
    \E i \in 1..Len(n) : \E j \in i..Len(n) : SubSeq(n, i, j) = t

\* what the claim calls "pattern v matches name n"
PatternMatches(regex, v, n) == IF regex THEN Occurs(v, n) ELSE v = n

\* the name a match call decides on
MatchedName ==
    IF matched.kind = "GHWorkflowSpec"
    THEN matched.arg[Len(matched.arg)]
    ELSE matched.arg

\* C28: match(name) is true exactly when an include pattern matches the
\* name and no exclude pattern does; an empty include list matches nothing
\* and the default include everything; with regex false a pattern matches
\* only the identical name; GHWorkflowSpec decides on the last component of
\* the path.
C28_Match ==
    matched.kind # None =>
        matched.result =
            (/\ \/ ~wfspec.given
                \/ \E v \in wfspec.include :
                      PatternMatches(wfspec.regex, v, MatchedName)
             /\ ~\E v \in wfspec.exclude :
                      PatternMatches(wfspec.regex, v, MatchedName))

\* exclusion wins on a path whose file name holds both patterns, with a
\* directory that the exclude pattern would not match alone
C28_Witness ==
    /\ matched.kind = "GHWorkflowSpec"
    /\ wfspec.regex
    /\ wfspec.include = {<<"a">>}
    /\ wfspec.exclude = {<<"a", "b">>}
    /\ matched.arg = <<<<"b">>, <<"a", "b">>>>
    /\ ~matched.result


(***************************************************************************)
(* Claims about Travis builds that had not started (SpecTravis)            *)
(***************************************************************************)
\* build i was met not started by a traversal, has since started and
\* finished, and is of an allowed kind
FinishedAfterSkip(i) ==
    /\ i \in not_started
    /\ i <= Len(world)
    /\ world[i].done
    /\ world[i].ts > cfg.since
    /\ from_travis_event(world[i].event) \in cfg.types

\* C29: a Travis build that a run met not started is, after it has started
\* and finished, yielded by some later run, also when builds with higher
\* numbers started and finished before it.
C29_NotStartedNotLost ==
    \A i \in 1..MaxWorld : FinishedAfterSkip(i) ~> (i \in yielded)


(***************************************************************************)
(* Claims about until (Spec for GitHub, Travis and Appveyor, SpecCircleCI) *)
(***************************************************************************)
\* C30: when until is set, an event later than until is skipped by
\* get_build_assets of every provider: it is not registered and yields no
\* assets, so new_since() never exceeds the later of since and until.
C30_TooNewSkipped ==
    /\ \A k \in 1..Len(trace) :
          too_new(cfg.until, trace[k].ev.ts) =>
             trace[k].reg = "none" /\ trace[k].assets = 0
    /\ floor # NoTime /\ cfg.until # NoTime =>
          floor <= (IF since > cfg.until THEN since ELSE cfg.until)


(***************************************************************************)
(* Claims about download_zipfile (SpecDownload)                            *)
(***************************************************************************)
\* C31: download_zipfile retries on an invalid zip: a call that an invalid
\* archive brings to an end has met ZIPFILE_RETRIES + 1 invalid archives
\* and raises BadZipFile; after fewer of them the call goes on to the
\* next download.
C31_ZipRetries ==
    ret.exc = "BadZipFile" =>
       ret.bad = ZIPFILE_RETRIES + 1 /\ ret.status = "BadZipFile"


(***************************************************************************)
(* Claims about the watermark (SpecTracker, Spec)                          *)
(***************************************************************************)
\* the earliest unprocessed registration, NoTime when all were processed
EarliestUnprocessed ==
    LET U == {regs[k][1] : k \in {n \in 1..Len(regs) : ~regs[n][2]}}
    IN  IF U = {} THEN NoTime ELSE CHOOSE t \in U : \A u \in U : t <= u

\* C32: new_since() is repeatable: a second call with no register_build in
\* between returns the floor the first call returned, and never a time
\* later than the earliest unprocessed registration.
C32_NewSinceRepeatable ==
    pc = "tracker_again" =>
       /\ refloor = floor
       /\ EarliestUnprocessed # NoTime => refloor <= EarliestUnprocessed


\* the timestamps registered both as processed and as unprocessed
SharedTimes ==
    {t \in TrackerTimes :
        /\ \E k \in 1..Len(regs) : regs[k] = <<t, TRUE>>
        /\ \E k \in 1..Len(regs) : regs[k] = <<t, FALSE>>}

\* C34: when a processed and an unprocessed registration share a timestamp
\* t, new_since() stops at the unprocessed one before it takes the
\* processed one, so the floor is strictly earlier than t, whatever the
\* order of the register_build calls.
C34_TieUnprocessedFirst ==
    pc = "tracker_done" => \A t \in SharedTimes : floor < t

\* a tie registered processed first, and one registered unprocessed first
C34_Witness ==
    /\ pc = "tracker_done"
    /\ \E t \in SharedTimes :
          /\ floor < t
          /\ floor > since
          /\ \E j, k \in 1..Len(regs) :
                j < k /\ regs[j] = <<t, TRUE>> /\ regs[k] = <<t, FALSE>>


(***************************************************************************)
(* SpecConfig: Config.get_since is called once, for any configured since   *)
(* and max-days-back, any clock reading and any state_since.  Times are    *)
(* counted in days.                                                        *)
(***************************************************************************)
\* the values of since and state_since that are not None
ConfigTimes == {10, 20, 30, 40}

\* datetime.now(timezone.utc)
Nows == {40, 50}

\* max-days-back
DaysBack == {0, 15, 30}

\* mutant of config_get_since: a state_since always takes precedence
config_get_since_state_first(c, now, state_since) ==
    LET max_dt_back == now - c.max_days_back
    IN  IF state_since = NoTime
        THEN IF c.since # NoTime THEN c.since ELSE max_dt_back
        ELSE IF state_since > max_dt_back THEN state_since ELSE max_dt_back

\* Config.get_since(state_since), with the clock reading now
config_get_since(c, now, state_since) ==
    LET max_dt_back == now - c.max_days_back
    IN  IF state_since = NoTime
        THEN IF c.since # NoTime THEN c.since ELSE max_dt_back
        ELSE IF c.since = NoTime \/ c.since <= state_since
        THEN IF state_since > max_dt_back THEN state_since ELSE max_dt_back
        ELSE c.since

InitConfig ==
    /\ pc = "config_since"
    /\ NoFetch
    /\ NoLookups
    /\ NoPackages
    /\ NoMatch
    /\ not_started = {}
    /\ refloor = NoTime
    /\ req = [is_github |-> FALSE, i |-> 0, r |-> None, out |-> None, n |-> 0,
              only_retry |-> TRUE]
    /\ cci = [logs |-> TRUE, artifacts |-> FALSE, finished |-> FALSE,
              allowed |-> FALSE, jobs |-> <<>>, k |-> 1, bound |-> FALSE,
              nlogs |-> 0, narts |-> 0, out |-> None]
    /\ gs \in [since : ConfigTimes \cup {NoTime}, max_days_back : DaysBack,
                now : Nows, state_since : ConfigTimes \cup {NoTime},
                result : {NoTime}]

\* cfg.get_since(state_since)
config_get_since_call ==
    /\ pc = "config_since"
    /\ gs' = [gs EXCEPT !.result = config_get_since(gs, gs.now, gs.state_since)]
    /\ pc' = "config_since_done"
    /\ UNCHANGED noFetchVars
    /\ UNCHANGED <<ghVars, pkgVars, matchVars, not_started, refloor, req, cci>>

NextConfig == config_get_since_call

SpecConfig == InitConfig /\ [][NextConfig]_vars

(***************************************************************************)
(* Claims about Config.get_since (SpecConfig)                              *)
(***************************************************************************)
\* now - max_days_back of the call
MaxDtBack == gs.now - gs.max_days_back

\* C37: Config.get_since(state_since) returns the configured since (or
\* now - max_days_back when since is unset) if state_since is null, the
\* later of state_since and now - max_days_back if since is unset or not
\* later than state_since, and the configured since if it is later than
\* state_since, even when it is earlier than now - max_days_back; so the
\* result is never earlier than state_since nor than a configured since.
C37_ConfigGetSince ==
    pc = "config_since_done" =>
       /\ gs.state_since = NoTime /\ gs.since # NoTime => gs.result = gs.since
       /\ gs.state_since = NoTime /\ gs.since = NoTime => gs.result = MaxDtBack
       /\ gs.state_since # NoTime /\ (gs.since = NoTime \/ gs.since <= gs.state_since)
             => /\ gs.result \in {gs.state_since, MaxDtBack}
                /\ gs.result >= gs.state_since
                /\ gs.result >= MaxDtBack
       /\ gs.state_since # NoTime /\ gs.since # NoTime /\ gs.since > gs.state_since
             => gs.result = gs.since
       /\ gs.state_since # NoTime => gs.result >= gs.state_since
       /\ gs.since # NoTime => gs.result >= gs.since

\* a configured since later than state_since and earlier than
\* now - max_days_back was returned
C37_Witness ==
    /\ pc = "config_since_done"
    /\ gs.state_since # NoTime
    /\ gs.since > gs.state_since
    /\ gs.since < MaxDtBack
    /\ gs.result = gs.since


(***************************************************************************)
(* Claims about the watermark across runs (Spec)                           *)
(***************************************************************************)
\* the StateFile object that from_file makes of the persisted record
PersistedStateFile ==
    [default_since |-> cfg.since, path |-> STATE_FILE,
     state |-> [n \in CiNames |-> stateFile[n]],
     migrating |-> FALSE, modified |-> FALSE]

\* C33: the watermark never moves backwards: a traversal registers only
\* events later than the since the tracker was built with (builds,
\* releases and package versions alike), so new_since() is never earlier
\* than that since; and the since that StateFile.get_since and
\* Config.get_since hand to the next run is never earlier than the
\* persisted value.
C33_WatermarkNeverBack ==
    /\ \A k \in 1..Len(regs) : regs[k][1] > since
    /\ \A t \in FeedTimes : package_step([ts |-> t], since, cfg.until) => t > since
    /\ floor # NoTime => floor >= since
    /\ \A n \in ProviderNames :
          stateFile[n] # NoTime =>
             /\ \A now \in Nows, d \in DaysBack :
                   config_get_since([since |-> cfg.since, max_days_back |-> d],
                                    now, stateFile[n]) >= stateFile[n]
             /\ n \in CiNames =>
                   get_since(PersistedStateFile, cwd, n).value >= stateFile[n]

\* a run registered events, its floor is later than the since it started
\* from, and the floor was persisted
C33_Witness ==
    /\ pc = "written"
    /\ Len(regs) > 1
    /\ floor > since
    /\ stateFile[name_] = floor
    /\ file0[name_] # NoTime
    /\ name_ \in CiNames
    /\ get_since(PersistedStateFile, cwd, name_).value = floor


(***************************************************************************)
(* SpecGet: one APIClient.get call against a server that may answer each   *)
(* request in any way.  A step sends the request, the next one handles the *)
(* response; the client's steps are taken as long as the call has not      *)
(* ended.                                                                  *)
(***************************************************************************)
\* requests counted (the counter stays at this value once it is reached)
MaxRequests == 15

\* the responses: by status code, for 429 with or without a Retry-After
\* header that parse_retry_after accepts, for 403 with a JSON body whose
\* message has "API rate limit exceeded", another JSON body, or a body that
\* is no JSON
Responses == {"200", "403", "403rate", "403nojson", "404", "429", "429after", "500"}

\* r.status_code
status_code(r) ==
    CASE r = "200" -> 200
      [] r \in {"403", "403rate", "403nojson"} -> 403
      [] r = "404" -> 404
      [] r \in {"429", "429after"} -> 429
      [] r = "500" -> 500

\* mutant of get_step: the retry counter may reach MAX_RETRIES + 1
get_step_one_more(is_github, i, r) ==
    IF r = "429after" THEN "sleep"
    ELSE IF (status_code(r) >= 500 \/ status_code(r) = 429) /\ i <= MAX_RETRIES
    THEN "retry"
    ELSE IF is_github /\ r = "403nojson" THEN "JSONDecodeError"
    ELSE IF is_github /\ r = "403rate" THEN "sleep"
    ELSE IF status_code(r) >= 400 THEN "HTTPError"
    ELSE "returned"

\* the body of the while loop of APIClient.get for the response r: sleep
\* and ask again, count a retry and ask again, raise, or return r
get_step(is_github, i, r) ==
    IF r = "429after" THEN "sleep"
    ELSE IF (status_code(r) >= 500 \/ status_code(r) = 429) /\ i < MAX_RETRIES
    THEN "retry"
    ELSE IF is_github /\ r = "403nojson" THEN "JSONDecodeError"
    ELSE IF is_github /\ r = "403rate" THEN "sleep"
    ELSE IF status_code(r) >= 400 THEN "HTTPError"
    ELSE "returned"

InitGet ==
    /\ pc = "get"
    /\ NoFetch
    /\ NoLookups
    /\ NoPackages
    /\ NoMatch
    /\ not_started = {}
    /\ refloor = NoTime
    /\ gs = [since |-> NoTime, max_days_back |-> 0, now |-> 0,
             state_since |-> NoTime, result |-> NoTime]
    /\ cci = [logs |-> TRUE, artifacts |-> FALSE, finished |-> FALSE,
              allowed |-> FALSE, jobs |-> <<>>, k |-> 1, bound |-> FALSE,
              nlogs |-> 0, narts |-> 0, out |-> None]
    /\ req \in [is_github : BOOLEAN, i : {0}, r : {None}, out : {None}, n : {0},
                 only_retry : {TRUE}]

\* r = self.session.get(url, **kwargs)
session_get ==
    /\ pc = "get"
    /\ req.r = None
    /\ \E r \in Responses :
          req' = [req EXCEPT !.r = r,
                             !.n = IF @ < MaxRequests THEN @ + 1 ELSE @,
                             !.only_retry = @ /\ r \in {"429", "500"}]
    /\ UNCHANGED pc
    /\ UNCHANGED noFetchVars
    /\ UNCHANGED <<ghVars, pkgVars, matchVars, not_started, refloor, gs, cci>>

\* the if statement on the response
handle_response ==
    /\ pc = "get"
    /\ req.r # None
    /\ LET a == get_step(req.is_github, req.i, req.r)
       IN  IF a = "sleep"
           THEN req' = [req EXCEPT !.r = None] /\ UNCHANGED pc
           ELSE IF a = "retry"
           THEN req' = [req EXCEPT !.r = None, !.i = @ + 1] /\ UNCHANGED pc
           ELSE req' = [req EXCEPT !.out = a] /\ pc' = "get_done"
    /\ UNCHANGED noFetchVars
    /\ UNCHANGED <<ghVars, pkgVars, matchVars, not_started, refloor, gs, cci>>

NextGet == session_get \/ handle_response

SpecGet == InitGet /\ [][NextGet]_vars /\ WF_vars(NextGet)

(***************************************************************************)
(* Claims about APIClient.get (SpecGet)                                    *)
(***************************************************************************)
\* C35: APIClient.get retries a response with status >= 500, or 429
\* without usable Retry-After, at most MAX_RETRIES times: a call that got
\* only such responses ends after exactly MAX_RETRIES + 1 requests with an
\* HTTP error; and get never returns a response with status >= 400.
C35_RetriesBounded ==
    /\ req.out = "returned" => status_code(req.r) < 400
    /\ req.only_retry /\ req.n > 0 =>
          /\ req.n <= MAX_RETRIES + 1
          /\ req.out # None => req.out = "HTTPError" /\ req.n = MAX_RETRIES + 1
          /\ req.out = None /\ req.r = None => req.i = req.n

\* the call raised after MAX_RETRIES + 1 responses of status 500 or 429
C35_Witness ==
    /\ req.out = "HTTPError"
    /\ req.only_retry
    /\ req.n = MAX_RETRIES + 1
    /\ req.i = MAX_RETRIES

\* C36: APIClient.get terminates for every sequence of responses: the
\* call ends, by returning or raising, also when the server keeps
\* answering 429 with Retry-After or 403 'API rate limit exceeded'.
C36_GetTerminates == <>(req.out # None)


(***************************************************************************)
(* Claims about get_build_assets_for_commit and the tracker (SpecGitHub)   *)
(***************************************************************************)
\* C38: get_build_assets_for_commit never calls register_build: during and
\* after it fetched is what it was before the call (empty, the object
\* being new) and new_since() gives what it gave before, since.
C38_CommitLeavesTracker ==
    pc \in {"commit", "commit_download", "commit_done"} =>
       /\ fetched = <<>>
       /\ new_since(since, fetched).ts = since
       /\ new_since(since, fetched).fetched = <<>>

\* the traversal for a commit has ended after it met a completed and a not
\* completed run and yielded assets
C38_Witness ==
    /\ pc = "commit_done"
    /\ yielded # {}
    /\ \E j, k \in 1..Len(trace) : trace[j].ev.done /\ ~trace[k].ev.done
    /\ fetched = <<>>


(***************************************************************************)
(* SpecJobs: CircleCI.get_build_assets for one GitHub pipeline later than  *)
(* since, followed through the loop over the jobs of its workflows.        *)
(***************************************************************************)
\* jobs of the pipeline
MaxJobs == 2

\* artifacts of a job
MaxArtifacts == 2

\* a job: whether it has a job_number, the number of actions in the steps
\* of its v1.1 record, the number of its artifacts
Jobs == [number : BOOLEAN, actions : 0..1, artifacts : 0..MaxArtifacts]

JobLists == UNION {[1..n -> Jobs] : n \in 0..MaxJobs}

\* the body of the loop over the jobs: the logs and the artifacts yielded,
\* whether the local variable `action` is bound afterwards, and whether
\* the read of action.status for a CCIArtifact raised UnboundLocalError
job_step(logs, artifacts, job, bound) ==
    IF ~job.number
    THEN [nlogs |-> 0, narts |-> 0, bound |-> bound, raised |-> FALSE]
    ELSE LET b == bound \/ (logs /\ job.actions > 0)
             wanted == IF artifacts THEN job.artifacts ELSE 0
         IN  [nlogs |-> IF logs THEN job.actions ELSE 0,
              narts |-> IF b THEN wanted ELSE 0,
              bound |-> b,
              raised |-> ~b /\ wanted > 0]

InitJobs ==
    /\ pc = "cci"
    /\ NoFetch
    /\ NoLookups
    /\ NoPackages
    /\ NoMatch
    /\ not_started = {}
    /\ refloor = NoTime
    /\ gs = [since |-> NoTime, max_days_back |-> 0, now |-> 0,
             state_since |-> NoTime, result |-> NoTime]
    /\ req = [is_github |-> FALSE, i |-> 0, r |-> None, out |-> None, n |-> 0,
              only_retry |-> TRUE]
    /\ cci \in [logs : BOOLEAN, artifacts : BOOLEAN, finished : BOOLEAN,
                 allowed : BOOLEAN, jobs : JobLists, k : {1}, bound : {FALSE},
                 nlogs : {0}, narts : {0}, out : {None}]

\* get_build_assets up to the loop over the jobs: nothing is asked for,
\* the pipeline is not finished, or its trigger kind is not allowed
cci_pipeline ==
    /\ pc = "cci"
    /\ IF (~cci.logs /\ ~cci.artifacts) \/ ~cci.finished \/ ~cci.allowed
       THEN cci' = [cci EXCEPT !.out = "done"] /\ pc' = "cci_done"
       ELSE pc' = "cci_jobs" /\ UNCHANGED cci
    /\ UNCHANGED noFetchVars
    /\ UNCHANGED <<ghVars, pkgVars, matchVars, not_started, refloor, gs, req>>

\* the loop body for the next job
cci_job ==
    /\ pc = "cci_jobs"
    /\ cci.k <= Len(cci.jobs)
    /\ LET o == job_step(cci.logs, cci.artifacts, cci.jobs[cci.k], cci.bound)
       IN  /\ cci' = [cci EXCEPT !.k = @ + 1, !.bound = o.bound,
                                 !.nlogs = @ + o.nlogs, !.narts = @ + o.narts,
                                 !.out = IF o.raised THEN "UnboundLocalError" ELSE @]
           /\ pc' = IF o.raised THEN "cci_raised" ELSE pc
    /\ UNCHANGED noFetchVars
    /\ UNCHANGED <<ghVars, pkgVars, matchVars, not_started, refloor, gs, req>>

\* the jobs are exhausted
cci_exhausted ==
    /\ pc = "cci_jobs"
    /\ cci.k > Len(cci.jobs)
    /\ cci' = [cci EXCEPT !.out = "done"]
    /\ pc' = "cci_done"
    /\ UNCHANGED noFetchVars
    /\ UNCHANGED <<ghVars, pkgVars, matchVars, not_started, refloor, gs, req>>

NextJobs == cci_pipeline \/ cci_job \/ cci_exhausted

SpecJobs == InitJobs /\ [][NextJobs]_vars

(***************************************************************************)
(* Claims about the CircleCI artifacts (SpecJobs)                          *)
(***************************************************************************)
RECURSIVE ArtifactsOf(_)
\* the artifacts of the jobs that have a job number
ArtifactsOf(jobs) ==
    IF jobs = <<>> THEN 0
    ELSE (IF Head(jobs).number THEN Head(jobs).artifacts ELSE 0)
         + ArtifactsOf(Tail(jobs))

\* C39: with logs disabled and artifacts enabled, CircleCI.get_build_assets
\* completes without raising, and for a finished pipeline of an allowed
\* trigger kind it yields one CCIArtifact per artifact of each job that has
\* a job number.
C39_ArtifactsWithoutLogs ==
    ~cci.logs /\ cci.artifacts =>
       /\ cci.out # "UnboundLocalError"
       /\ cci.out = "done" /\ cci.finished /\ cci.allowed =>
             cci.narts = ArtifactsOf(cci.jobs)

====
